---------------------------- MODULE Spec2Model ----------------------------
(***************************************************************************)
(* GALOIS metrics evaluator: model of src/src/utils/galois_eval.py (the    *)
(* optimized evaluator) and of the functions of src/galois_eval.py (the    *)
(* original evaluator) that differ from it.                                *)
(*                                                                         *)
(* Cells are strings, modelled as sequences of one-character strings so    *)
(* that normalization, float parsing and edit distance can be computed as  *)
(* the code computes them.  A cell of a table is its printed form str(v).  *)
(* Python floats are modelled as exact rationals <<num, den>>, den > 0,    *)
(* in lowest terms; decimal literals are exact within the modelled cells.  *)
(***************************************************************************)
EXTENDS Integers, Sequences, FiniteSets, TLC

----------------------------------------------------------------------------
(* Characters, in ascending code point order.                              *)

Chars ==
  << "\t", "\n", " ", ",", "-", ".",
     "0", "1", "2", "3", "4", "5", "6", "7", "8", "9",
     "A", "B", "C", "D", "E", "F", "G", "H", "I", "J", "K", "L", "M",
     "N", "O", "P", "Q", "R", "S", "T", "U", "V", "W", "X", "Y", "Z",
     "_",
     "a", "b", "c", "d", "e", "f", "g", "h", "i", "j", "k", "l", "m",
     "n", "o", "p", "q", "r", "s", "t", "u", "v", "w", "x", "y", "z" >>

Ord(c) == CHOOSE i \in 1..Len(Chars) : Chars[i] = c

IsDigit(c) == Ord(c) \in 7..16

DigitVal(c) == Ord(c) - 7

IsUpper(c) == Ord(c) \in 17..42

IsSpace(c) == Ord(c) \in 1..3

IsWordChar(c) == Ord(c) \in 7..69

ToLower(c) == IF IsUpper(c) THEN Chars[Ord(c) + 27] ELSE c

(* str.lower() *)
Lower(s) == [i \in 1..Len(s) |-> ToLower(s[i])]

(* str.replace(c, "") *)
RECURSIVE RemoveChar(_, _)
RemoveChar(s, c) ==
  IF s = <<>> THEN <<>>
  ELSE IF Head(s) = c THEN RemoveChar(Tail(s), c)
       ELSE <<Head(s)>> \o RemoveChar(Tail(s), c)

(* str.replace(c, d) for single characters *)
ReplaceChar(s, c, d) == [i \in 1..Len(s) |-> IF s[i] = c THEN d ELSE s[i]]

RECURSIVE LStrip(_)
LStrip(s) ==
  IF s # <<>> /\ IsSpace(Head(s)) THEN LStrip(Tail(s)) ELSE s

RECURSIVE RStrip(_)
RStrip(s) ==
  IF s # <<>> /\ IsSpace(s[Len(s)]) THEN RStrip(SubSeq(s, 1, Len(s) - 1)) ELSE s

(* str.strip() *)
Strip(s) == RStrip(LStrip(s))

(* first position >= i of s that does not hold a digit *)
RECURSIVE DigitRunEnd(_, _)
DigitRunEnd(s, i) ==
  IF i <= Len(s) /\ IsDigit(s[i]) THEN DigitRunEnd(s, i + 1) ELSE i

(* first position >= i of s that does not hold whitespace *)
RECURSIVE SpaceRunEnd(_, _)
SpaceRunEnd(s, i) ==
  IF i <= Len(s) /\ IsSpace(s[i]) THEN SpaceRunEnd(s, i + 1) ELSE i

(* s holds word w (lower case) at position i, ignoring case, followed by \b *)
WordAt(s, i, w) ==
  /\ i + Len(w) - 1 <= Len(s)
  /\ \A k \in 1..Len(w) : ToLower(s[i + k - 1]) = w[k]
  /\ (i + Len(w) > Len(s) \/ ~IsWordChar(s[i + Len(w)]))


----------------------------------------------------------------------------
(* Decimal digit strings.  float(x) of a decimal literal and the f"{v:.Nf}" *)
(* formats are computed on the digit strings; this is exact for the cells  *)
(* of the model (below 2^53, and no rounding tie beyond the kept digits    *)
(* that the binary value would break).                                     *)

RECURSIVE StripZeros(_)
StripZeros(d) ==
  IF Len(d) > 1 /\ Head(d) = "0" THEN StripZeros(Tail(d)) ELSE d

RECURSIVE IncDigits(_)
IncDigits(d) ==
  IF d = <<>> THEN <<"1">>
  ELSE LET init == SubSeq(d, 1, Len(d) - 1)
           last == d[Len(d)]
       IN  IF last = "9" THEN IncDigits(init) \o <<"0">>
           ELSE init \o <<Chars[Ord(last) + 1]>>

Zeros(n) == [i \in 1..n |-> "0"]

(* round-half-even decision for the digits `rest` dropped after `kept` *)
RoundsUp(kept, rest) ==
  IF rest = <<>> THEN FALSE
  ELSE LET f == DigitVal(Head(rest))
           more == \E i \in 2..Len(rest) : rest[i] # "0"
           odd == kept # <<>> /\ DigitVal(kept[Len(kept)]) % 2 = 1
       IN  f > 5 \/ (f = 5 /\ (more \/ odd))

(* the digits of `all`, zero-padded to at least `need` digits *)
PadTo(all, need) ==
  IF Len(all) < need THEN all \o Zeros(need - Len(all)) ELSE all

(* the kept digits, rounded half-even on the digits dropped *)
Rounded(kept, rest) ==
  IF RoundsUp(kept, rest) THEN IncDigits(kept) ELSE kept

OrZero(ip) == IF ip = <<>> THEN <<"0">> ELSE ip

(* the digits r printed with the last `places` of them behind the point *)
PlaceDot(r, places) ==
  OrZero(StripZeros(SubSeq(r, 1, Len(r) - places)))
    \o (IF places > 0 THEN <<".">> \o SubSeq(r, Len(r) - places + 1, Len(r)) ELSE <<>>)

CutAt(padded, need, places) ==
  PlaceDot(Rounded(SubSeq(padded, 1, need), SubSeq(padded, need + 1, Len(padded))), places)

(* f"{v * 10^shift:.{places}f}" for v = int.frac, both digit strings *)
FormatFixed(int, frac, shift, places) ==
  CutAt(PadTo(int \o frac, Len(int) + shift + places), Len(int) + shift + places, places)

----------------------------------------------------------------------------
(* Normalization: _million, _billion, _thousand, _numeric and              *)
(* _normalize_string.                                                      *)

NoMatch == [found |-> FALSE, int |-> <<>>, frac |-> <<>>]

(* \s*(word)\b at position e of s, for one of the words *)
SuffixAt(s, e, words) ==
  LET k == SpaceRunEnd(s, e)
  IN  \E w \in words : WordAt(s, k, w)

(* the end of (?:\.\d+)? at position j: j when there is no fraction *)
FracEnd(s, j) ==
  IF j + 1 <= Len(s) /\ s[j] = "." /\ IsDigit(s[j + 1]) THEN DigitRunEnd(s, j + 1) ELSE j

(* the match whose \d+ ends before j and whose fraction, if any, before j2 *)
MatchFrom(s, i, j, j2, words) ==
  IF j2 > j /\ SuffixAt(s, j2, words)
    THEN [found |-> TRUE, int |-> SubSeq(s, i, j - 1), frac |-> SubSeq(s, j + 1, j2 - 1)]
  ELSE IF SuffixAt(s, j, words)
    THEN [found |-> TRUE, int |-> SubSeq(s, i, j - 1), frac |-> <<>>]
  ELSE NoMatch

MatchInt(s, i, j, words) == MatchFrom(s, i, j, FracEnd(s, j), words)

(* (\d+(?:\.\d+)?)\s*(words)\b anchored at position i: group 1 *)
MatchAt(s, i, words) ==
  IF ~IsDigit(s[i]) THEN NoMatch ELSE MatchInt(s, i, DigitRunEnd(s, i), words)

FirstOf(hits) == CHOOSE i \in hits : \A h \in hits : i <= h

SearchIn(s, words, hits) ==
  IF hits = {} THEN NoMatch ELSE MatchAt(s, FirstOf(hits), words)

(* pattern.search(s): the leftmost match *)
Search(s, words) ==
  SearchIn(s, words, {i \in 1..Len(s) : MatchAt(s, i, words).found})

million == {<<"m","i","l","l","i","o","n">>, <<"m">>}

billion == {<<"b","i","l","l","i","o","n">>, <<"b">>}

thousand == {<<"t","h","o","u","s","a","n","d">>, <<"k">>}

(* _numeric.match(s3): ^-?\d+(\.\d+)?$ *)
numeric(s3) ==
  LET b == IF s3 # <<>> /\ Head(s3) = "-" THEN 2 ELSE 1
      j == DigitRunEnd(s3, b)
  IN  /\ j > b
      /\ \/ j = Len(s3) + 1
         \/ /\ j + 1 <= Len(s3)
            /\ s3[j] = "."
            /\ DigitRunEnd(s3, j + 1) = Len(s3) + 1

(* a variant that prints two decimals whether or not s3 holds a point *)
FormatNumericTwoPlaces(s3) ==
  LET neg == Head(s3) = "-"
      b   == IF neg THEN 2 ELSE 1
      j   == DigitRunEnd(s3, b)
      int == SubSeq(s3, b, j - 1)
      dot == j <= Len(s3)
      frac == IF dot THEN SubSeq(s3, j + 1, Len(s3)) ELSE <<>>
  IN  (IF neg THEN <<"-">> ELSE <<>>) \o FormatFixed(int, frac, 0, 2)

(* f"{float(s3):.2f}" if "." in s3 else f"{float(s3):.0f}" *)
FormatNumeric(s3) ==
  LET neg == Head(s3) = "-"
      b   == IF neg THEN 2 ELSE 1
      j   == DigitRunEnd(s3, b)
      int == SubSeq(s3, b, j - 1)
      dot == j <= Len(s3)
      frac == IF dot THEN SubSeq(s3, j + 1, Len(s3)) ELSE <<>>
  IN  (IF neg THEN <<"-">> ELSE <<>>)
        \o FormatFixed(int, frac, 0, IF dot THEN 2 ELSE 0)

(* a variant that multiplies by 1e6 for every magnitude word *)
NormalizeWithOneScale(cell_as_string, s3, m1, m2, m3) ==
  IF m1.found THEN FormatFixed(m1.int, m1.frac, 6, 0)
  ELSE IF m2.found THEN FormatFixed(m2.int, m2.frac, 6, 0)
  ELSE IF m3.found THEN FormatFixed(m3.int, m3.frac, 6, 0)
  ELSE IF numeric(s3) THEN FormatNumeric(s3)
  ELSE Lower(Strip(RemoveChar(cell_as_string, "\n")))

(* the branches of _normalize_string, on the three searches of s2 *)
NormalizeWith(cell_as_string, s3, m1, m2, m3) ==
  IF m1.found THEN FormatFixed(m1.int, m1.frac, 6, 0)
  ELSE IF m2.found THEN FormatFixed(m2.int, m2.frac, 9, 0)
  ELSE IF m3.found THEN FormatFixed(m3.int, m3.frac, 3, 0)
  ELSE IF numeric(s3) THEN FormatNumeric(s3)
  ELSE Lower(Strip(RemoveChar(cell_as_string, "\n")))

NormalizeFrom(cell_as_string, s2) ==
  NormalizeWith(cell_as_string, Strip(s2),
                Search(s2, million), Search(s2, billion), Search(s2, thousand))

normalize_string(cell_as_string) ==
  NormalizeFrom(cell_as_string, RemoveChar(cell_as_string, ","))

norm(v) == normalize_string(v)

----------------------------------------------------------------------------
(* Floats as exact rationals <<num, den>>, den > 0, in lowest terms.        *)

RECURSIVE Gcd(_, _)
Gcd(a, b) == IF b = 0 THEN a ELSE Gcd(b, a % b)

Abs(x) == IF x < 0 THEN -x ELSE x

Rat(n, d) ==
  LET g == Gcd(Abs(n), Abs(d))
  IN  IF d < 0 THEN <<(-n) \div g, (-d) \div g>> ELSE <<n \div g, d \div g>>

Zero == <<0, 1>>

One == <<1, 1>>

RatAdd(a, b) == Rat(a[1] * b[2] + b[1] * a[2], a[2] * b[2])

RatMul(a, b) == Rat(a[1] * b[1], a[2] * b[2])

(* a / n for an integer n > 0 *)
RatDivInt(a, n) == Rat(a[1], a[2] * n)

RatLeq(a, b) == a[1] * b[2] <= b[1] * a[2]

RECURSIVE RatSum(_)
RatSum(seq) == IF seq = <<>> THEN Zero ELSE RatAdd(Head(seq), RatSum(Tail(seq)))

----------------------------------------------------------------------------
(* float(s): the decimal, "nan" and "inf"/"infinity" forms over Chars      *)
(* (the cells of the model hold no exponent, underscore or "+" forms).     *)

RECURSIVE DigitsValue(_)
DigitsValue(d) ==
  IF d = <<>> THEN 0 ELSE DigitsValue(SubSeq(d, 1, Len(d) - 1)) * 10 + DigitVal(d[Len(d)])

RECURSIVE Pow10(_)
Pow10(n) == IF n = 0 THEN 1 ELSE 10 * Pow10(n - 1)

NotAFloat == [kind |-> "error", val |-> Zero]

(* the end of the digits of u whose integer part ends before j *)
DecimalEnd(u, j) ==
  IF j <= Len(u) /\ u[j] = "." THEN DigitRunEnd(u, j + 1) ELSE j

(* u read as digits [. digits]: the integer part ends before j, the literal before e *)
ParseDecimal(u, sgn, j, e) ==
  IF e = Len(u) + 1 /\ Len(SubSeq(u, 1, j - 1)) + Len(SubSeq(u, j + 1, e - 1)) > 0
    THEN [kind |-> "num",
          val |-> Rat(sgn * DigitsValue(SubSeq(u, 1, j - 1) \o SubSeq(u, j + 1, e - 1)),
                      Pow10(Len(SubSeq(u, j + 1, e - 1))))]
  ELSE NotAFloat

ParseFrom(u, sgn, j) == ParseDecimal(u, sgn, j, DecimalEnd(u, j))

(* the literal behind its sign *)
FloatUnsigned(u, lower, sgn) ==
  IF lower = <<"n","a","n">> THEN [kind |-> "nan", val |-> Zero]
  ELSE IF lower \in {<<"i","n","f">>, <<"i","n","f","i","n","i","t","y">>}
    THEN [kind |-> "inf", val |-> <<sgn, 1>>]
  ELSE ParseFrom(u, sgn, DigitRunEnd(u, 1))

FloatStripped(t) ==
  IF t # <<>> /\ Head(t) = "-" THEN FloatUnsigned(Tail(t), Lower(Tail(t)), -1)
  ELSE FloatUnsigned(t, Lower(t), 1)

float(str) == FloatStripped(Strip(str))

----------------------------------------------------------------------------
(* Edit distance and similarity.                                           *)

Min3(a, b, c) ==
  IF a <= b /\ a <= c THEN a ELSE IF b <= c THEN b ELSE c

(* one row cj of the dynamic program, built left to right up to column i *)
RECURSIVE EditRow(_, _, _, _, _)
EditRow(a, bj, prev, j, i) ==
  IF i = 0 THEN <<j>>
  ELSE LET cj == EditRow(a, bj, prev, j, i - 1)
       IN  Append(cj, Min3(prev[i + 1] + 1, cj[i] + 1,
                           prev[i] + (IF a[i] = bj THEN 0 ELSE 1)))

(* prev after the rows 1..j *)
RECURSIVE EditRows(_, _, _)
EditRows(a, b, j) ==
  IF j = 0 THEN [i \in 1..(Len(a) + 1) |-> i - 1]
  ELSE LET prev == EditRows(a, b, j - 1)
       IN  EditRow(a, b[j], prev, j, Len(prev) - 1)

edit_distance(a, b) ==
  IF a = b THEN 0
  ELSE IF Len(a) = 0 THEN Len(b)
  ELSE IF Len(b) = 0 THEN Len(a)
  ELSE LET x == IF Len(a) > Len(b) THEN b ELSE a
           y == IF Len(a) > Len(b) THEN a ELSE b
       IN  EditRows(x, y, Len(y))[Len(x) + 1]

(* a variant whose length pre-check also rejects a difference of k *)
lev_leq_k_strict(a, b, k) ==
  IF Abs(Len(a) - Len(b)) >= k THEN FALSE ELSE edit_distance(a, b) <= k

lev_leq_k(a, b, k) ==
  IF Abs(Len(a) - Len(b)) > k THEN FALSE ELSE edit_distance(a, b) <= k

(* abs(x) <= 0.1 and abs((ev - rv) / ev) <= 0.1 on exact rationals *)
Tenth == <<1, 10>>

RatAbs(a) == <<Abs(a[1]), a[2]>>

RelDiff(ev, rv) ==
  Rat(Abs(ev[1] * rv[2] - rv[1] * ev[2]) * ev[2], rv[2] * ev[2] * Abs(ev[1]))

(* the numeric branch and the string branch, on the two float() outcomes *)
SimilarWith(a, b, ev, rv, k) ==
  IF ev.kind # "error" /\ rv.kind # "error"
    THEN IF ev.kind # "num" \/ rv.kind # "num" THEN FALSE
         ELSE IF ev.val = Zero THEN RatLeq(RatAbs(rv.val), Tenth)
         ELSE RatLeq(RelDiff(ev.val, rv.val), Tenth)
  ELSE IF k < 0 THEN FALSE
  ELSE IF Abs(Len(a) - Len(b)) > k THEN FALSE
  ELSE lev_leq_k(a, b, k)

cells_similar_default(a, b) ==
  SimilarWith(a, b, float(ReplaceChar(a, ",", ".")), float(ReplaceChar(b, ",", ".")),
              Len(a) \div 10)

----------------------------------------------------------------------------
(* Cell-level and tuple-level metrics.  A table is a sequence of rows, a   *)
(* row a sequence of cells; the metrics return rationals.                  *)

(* cells_similar with the default threshold *)
cells_similar(expected, result) == cells_similar_default(expected, result)

(* src/galois_eval.py, cells_similar, on the two float() outcomes: with    *)
(* ev == 0 the name variation holds the bool abs(rv) <= 0.1, and the       *)
(* function returns variation <= 0.1, that is not variation                *)
SimilarOriginal(a, b, ev, rv) ==
  IF ev.kind # "error" /\ rv.kind # "error"
    THEN IF ev.kind = "num" /\ ev.val = Zero
           THEN ~(rv.kind = "num" /\ RatLeq(RatAbs(rv.val), Tenth))
         ELSE IF ev.kind # "num" \/ rv.kind # "num" THEN FALSE
         ELSE RatLeq(RelDiff(ev.val, rv.val), Tenth)
  ELSE edit_distance(a, b) <= Len(a) \div 10

(* src/galois_eval.py, cells_similar *)
cells_similar_original(expected, result) ==
  SimilarOriginal(expected, result, float(ReplaceChar(expected, ",", ".")),
                  float(ReplaceChar(result, ",", ".")))

RatDiv(a, b) == Rat(a[1] * b[2], a[2] * b[1])

(* 0.0 if (prec+rec)==0 else 2*prec*rec/(prec+rec) *)
HarmonicMean(prec, rec) ==
  IF RatAdd(prec, rec) = Zero THEN Zero
  ELSE RatDiv(RatMul(<<2, 1>>, RatMul(prec, rec)), RatAdd(prec, rec))

cells_set(cols, rows) ==
  UNION {{norm(rows[i][j]) : j \in DOMAIN rows[i]} : i \in DOMAIN rows}

(* a variant that is satisfied when every predicted cell is expected *)
F1ExactSubset(gt, pr) ==
  IF gt = {} /\ pr = {} THEN One
  ELSE IF gt = {} \/ pr = {} THEN Zero
  ELSE IF pr \subseteq gt THEN One
  ELSE HarmonicMean(Rat(Cardinality(gt \cap pr), Cardinality(pr)),
                    Rat(Cardinality(gt \cap pr), Cardinality(gt)))

(* f1_cell_exact on the two cell sets *)
F1Exact(gt, pr) ==
  IF gt = {} /\ pr = {} THEN One
  ELSE IF gt = {} \/ pr = {} THEN Zero
  ELSE IF gt = pr THEN One
  ELSE HarmonicMean(Rat(Cardinality(gt \cap pr), Cardinality(pr)),
                    Rat(Cardinality(gt \cap pr), Cardinality(gt)))

f1_cell_exact(gt_cols, gt_rows, pr_cols, pr_rows) ==
  F1Exact(cells_set(gt_cols, gt_rows), cells_set(pr_cols, pr_rows))

(* a variant that takes the predicted cell as the reference *)
MatchedReversed(xs, ys, expected_first) ==
  {x \in xs : \E y \in ys :
     IF expected_first THEN cells_similar_default(y, x) ELSE cells_similar_default(x, y)}

(* the cells of xs that are similar to a cell of ys, expected cell first *)
Matched(xs, ys, expected_first) ==
  {x \in xs : \E y \in ys :
     IF expected_first THEN cells_similar_default(x, y) ELSE cells_similar_default(y, x)}

(* f1_cell_similarity on the two cell sets and the matched cells of each *)
F1Similarity(gt, pr, p_count, r_count) ==
  IF gt = {} /\ pr = {} THEN One
  ELSE IF gt = {} \/ pr = {} THEN Zero
  ELSE HarmonicMean(Rat(p_count, Cardinality(pr)), Rat(r_count, Cardinality(gt)))

F1OfSets(gt, pr) ==
  F1Similarity(gt, pr, Cardinality(Matched(pr, gt, FALSE)), Cardinality(Matched(gt, pr, TRUE)))

f1_cell_similarity(gt_cols, gt_rows, pr_cols, pr_rows) ==
  F1OfSets(cells_set(gt_cols, gt_rows), cells_set(pr_cols, pr_rows))

(* a variant that divides by the number of expected rows *)
cardinality_of_expected(gt_rows, pr_rows) ==
  IF Len(gt_rows) = 0 /\ Len(pr_rows) = 0 THEN One
  ELSE IF Len(gt_rows) = 0 \/ Len(pr_rows) = 0 THEN Zero
  ELSE Rat(IF Len(gt_rows) < Len(pr_rows) THEN Len(gt_rows) ELSE Len(pr_rows), Len(gt_rows))

(* a variant that divides the predicted row count by the expected one *)
cardinality_ratio(gt_rows, pr_rows) ==
  LET se == Len(gt_rows)
      sa == Len(pr_rows)
  IN  IF se = 0 /\ sa = 0 THEN One
      ELSE IF se = 0 \/ sa = 0 THEN Zero
      ELSE Rat(sa, se)

cardinality(gt_rows, pr_rows) ==
  LET se == Len(gt_rows)
      sa == Len(pr_rows)
  IN  IF se = 0 /\ sa = 0 THEN One
      ELSE IF se = 0 \/ sa = 0 THEN Zero
      ELSE Rat(IF se < sa THEN se ELSE sa, IF se < sa THEN sa ELSE se)

normalize_rows_full(rows) ==
  [i \in DOMAIN rows |-> [j \in DOMAIN rows[i] |-> norm(rows[i][j])]]

(* str < str: lexicographic on code points *)
RECURSIVE StrLess(_, _)
StrLess(a, b) ==
  IF b = <<>> THEN FALSE
  ELSE IF a = <<>> THEN TRUE
  ELSE IF Head(a) # Head(b) THEN Ord(Head(a)) < Ord(Head(b))
  ELSE StrLess(Tail(a), Tail(b))

SortKey(r) == IF Len(r) > 1 THEN r[2] ELSE <<>>

(* insert r behind the rows whose key is not greater (sorted() is stable) *)
RECURSIVE InsertByKey(_, _)
InsertByKey(sorted, r) ==
  IF sorted = <<>> THEN <<r>>
  ELSE IF StrLess(SortKey(r), SortKey(Head(sorted))) THEN <<r>> \o sorted
  ELSE <<Head(sorted)>> \o InsertByKey(Tail(sorted), r)

RECURSIVE sort_by_second_cell(_)
sort_by_second_cell(norm_rows) ==
  IF norm_rows = <<>> THEN <<>>
  ELSE InsertByKey(sort_by_second_cell(SubSeq(norm_rows, 1, Len(norm_rows) - 1)),
                   norm_rows[Len(norm_rows)])

(* Counter(tuple(r) for r in rows): row -> multiplicity *)
Counter(rows) ==
  [r \in {rows[i] : i \in DOMAIN rows} |-> Cardinality({i \in DOMAIN rows : rows[i] = r})]

(* a variant that asks only for the presence of the expected row *)
ConstraintScoreIgnoringCounts(gt_count, pr_count) ==
  IF DOMAIN gt_count = {} /\ DOMAIN pr_count = {} THEN One
  ELSE IF DOMAIN gt_count = {} THEN Zero
  ELSE Rat(Cardinality({row \in DOMAIN gt_count : row \in DOMAIN pr_count}),
           Cardinality(DOMAIN gt_count))

(* a variant that also accepts a greater multiplicity in the prediction *)
ConstraintScoreLoose(gt_count, pr_count) ==
  IF DOMAIN gt_count = {} /\ DOMAIN pr_count = {} THEN One
  ELSE IF DOMAIN gt_count = {} THEN Zero
  ELSE Rat(Cardinality({row \in DOMAIN gt_count :
                          row \in DOMAIN pr_count /\ pr_count[row] >= gt_count[row]}),
           Cardinality(DOMAIN gt_count))

(* tuple_constraint on the two counters *)
ConstraintScore(gt_count, pr_count) ==
  IF DOMAIN gt_count = {} /\ DOMAIN pr_count = {} THEN One
  ELSE IF DOMAIN gt_count = {} THEN Zero
  ELSE Rat(Cardinality({row \in DOMAIN gt_count :
                          row \in DOMAIN pr_count /\ pr_count[row] = gt_count[row]}),
           Cardinality(DOMAIN gt_count))

(* a variant that compares the rows position by position *)
tuple_constraint_positional(gt_rows, pr_rows) ==
  IF gt_rows = <<>> /\ pr_rows = <<>> THEN One
  ELSE IF gt_rows = <<>> THEN Zero
  ELSE Rat(Cardinality({i \in DOMAIN gt_rows :
                          i \in DOMAIN pr_rows
                          /\ normalize_rows_full(gt_rows)[i] = normalize_rows_full(pr_rows)[i]}),
           Len(gt_rows))

tuple_constraint(gt_rows, pr_rows) ==
  ConstraintScore(Counter(sort_by_second_cell(normalize_rows_full(gt_rows))),
                  Counter(sort_by_second_cell(normalize_rows_full(pr_rows))))

rows_similar_cached(a, b) ==
  /\ Len(a) = Len(b)
  /\ \A i \in 1..Len(a) : a[i] = b[i] \/ cells_similar_default(a[i], b[i])

(* buckets[(len(prow), pcnt)], [] when the key is absent *)
Buckets(pr_count, key) ==
  {prow \in DOMAIN pr_count : <<Len(prow), pr_count[prow]>> = key}

(* tuple_similarity_constraint on the two counters *)
SimilarityScore(gt_count, pr_count) ==
  IF DOMAIN gt_count = {} /\ DOMAIN pr_count = {} THEN One
  ELSE IF DOMAIN gt_count = {} THEN Zero
  ELSE Rat(Cardinality({erow \in DOMAIN gt_count :
                          \E prow \in Buckets(pr_count, <<Len(erow), gt_count[erow]>>) :
                              rows_similar_cached(erow, prow)}),
           Cardinality(DOMAIN gt_count))

tuple_similarity_constraint(gt_rows, pr_rows) ==
  SimilarityScore(Counter(normalize_rows_full(gt_rows)), Counter(normalize_rows_full(pr_rows)))

(* src/galois_eval.py, f1_cell_similarity: the cells of xs for which       *)
(* any(cells_similar(ec, rc)) holds, the expected cell being the first     *)
(* argument                                                                *)
MatchedOriginal(xs, ys, expected_first) ==
  {x \in xs : \E y \in ys :
     IF expected_first THEN cells_similar_original(x, y) ELSE cells_similar_original(y, x)}

(* src/galois_eval.py, f1_cell_similarity *)
f1_cell_similarity_original(gt_cols, gt_rows, pr_cols, pr_rows) ==
  LET gt == cells_set(gt_cols, gt_rows)
      pr == cells_set(pr_cols, pr_rows)
  IN  F1Similarity(gt, pr, Cardinality(MatchedOriginal(pr, gt, FALSE)),
                   Cardinality(MatchedOriginal(gt, pr, TRUE)))

(* src/galois_eval.py, rows_similar of tuple_similarity_constraint *)
rows_similar(a, b) ==
  LET L == IF Len(a) < Len(b) THEN Len(a) ELSE Len(b)
  IN  IF L = 0 THEN Len(a) = Len(b)
      ELSE /\ \A i \in 1..L : cells_similar_original(a[i], b[i])
           /\ Len(a) = Len(b)

(* src/galois_eval.py, tuple_similarity_constraint on the two counters *)
SimilarityScoreOriginal(gt_count, pr_count) ==
  IF DOMAIN gt_count = {} /\ DOMAIN pr_count = {} THEN One
  ELSE IF DOMAIN gt_count = {} THEN Zero
  ELSE Rat(Cardinality({erow \in DOMAIN gt_count :
                          \E prow \in DOMAIN pr_count :
                              pr_count[prow] = gt_count[erow] /\ rows_similar(erow, prow)}),
           Cardinality(DOMAIN gt_count))

(* src/galois_eval.py, tuple_similarity_constraint *)
tuple_similarity_constraint_original(gt_rows, pr_rows) ==
  SimilarityScoreOriginal(Counter(sort_by_second_cell(normalize_rows_full(gt_rows))),
                          Counter(sort_by_second_cell(normalize_rows_full(pr_rows))))

----------------------------------------------------------------------------
(* Files.  A JSON value is a tagged record: null, num and str carry their  *)
(* printed form str(v); a list carries a sequence; a dict a function from  *)
(* keys to values.  A table cell is held as its printed form.              *)

JNull == [t |-> "null", v |-> <<>>]

JNum(printed) == [t |-> "num", v |-> printed]

JStr(chars) == [t |-> "str", v |-> chars]

JList(items) == [t |-> "list", v |-> items]

JDict(map) == [t |-> "dict", v |-> map]

(* true and false: instances of int in Python *)
JBool(b) == [t |-> "bool", v |-> IF b THEN <<"T", "r", "u", "e">> ELSE <<"F", "a", "l", "s", "e">>]

(* an integer literal beyond the largest double *)
JHugeInt == [t |-> "hugeint", v |-> <<"1", "e", "4", "0", "0">>]

(* str(v) of a scalar *)
PyStr(j) == IF j.t = "null" THEN <<"N","o","n","e">> ELSE j.v

(* every key the model's JSON objects use, in sorted() order *)
KeyOrder == <<"columns", "data", "result_set", "rows", "time", "tokens", "tuples", "x", "y">>

HasKey(j, k) == j.t = "dict" /\ k \in DOMAIN j.v

(* sorted(keys) *)
RECURSIVE SortedFrom(_, _)
SortedFrom(keys, i) ==
  IF i > Len(KeyOrder) THEN <<>>
  ELSE (IF KeyOrder[i] \in keys THEN <<KeyOrder[i]>> ELSE <<>>) \o SortedFrom(keys, i + 1)

SortedKeys(keys) == SortedFrom(keys, 1)

EmptyTable == [cols |-> <<>>, rows |-> <<>>]

(* [t.get(c, "") for c in cols] *)
DictRow(t, cols) ==
  [i \in 1..Len(cols) |-> IF cols[i] \in DOMAIN t.v THEN PyStr(t.v[cols[i]]) ELSE <<>>]

(* sorted union of the keys of the dicts of arr; rows by lookup *)
DictsTable(arr, onlyDicts) ==
  LET dicts == SelectSeq(arr, LAMBDA t : t.t = "dict")
      used  == IF onlyDicts THEN dicts ELSE arr
      cols  == SortedKeys(UNION {DOMAIN dicts[i].v : i \in DOMAIN dicts})
  IN  [cols |-> cols, rows |-> [i \in DOMAIN used |-> DictRow(used[i], cols)]]

MaxWidth(arr) ==
  CHOOSE w \in {Len(arr[i].v) : i \in DOMAIN arr} : \A i \in DOMAIN arr : Len(arr[i].v) <= w

(* columns c0..cN sized to the widest row, shorter rows padded with "" *)
ListsTable(arr) ==
  LET maxw == MaxWidth(arr)
  IN  [cols |-> [i \in 1..maxw |-> "c" \o Chars[7 + i - 1]],
       rows |-> [i \in DOMAIN arr |->
                   [j \in 1..maxw |-> IF j <= Len(arr[i].v) THEN PyStr(arr[i].v[j]) ELSE <<>>]]]

(* "".join(chars) as a key *)
RECURSIVE Join(_)
Join(chars) == IF chars = <<>> THEN "" ELSE Head(chars) \o Join(Tail(chars))

ColumnsRowsTable(obj) ==
  LET names == obj.v["columns"].v
      cols  == [i \in DOMAIN names |-> Join(PyStr(names[i]))]
      rws   == obj.v["rows"].v
  IN  [cols |-> cols,
       rows |-> [i \in DOMAIN rws |->
                   IF rws[i].t = "dict" THEN DictRow(rws[i], cols)
                   ELSE [j \in DOMAIN cols |->
                           IF j <= Len(rws[i].v) THEN PyStr(rws[i].v[j]) ELSE <<>>]]]

parse_table_from_obj(obj) ==
  IF obj.t = "dict" THEN
    IF HasKey(obj, "columns") /\ HasKey(obj, "rows") THEN ColumnsRowsTable(obj)
    ELSE IF HasKey(obj, "tuples") /\ obj.v["tuples"].t = "list"
      THEN DictsTable(obj.v["tuples"].v, TRUE)
    ELSE IF HasKey(obj, "data") /\ obj.v["data"].t = "list" THEN
      LET arr == obj.v["data"].v
      IN  IF arr # <<>> /\ arr[1].t = "dict" THEN DictsTable(arr, FALSE)
          ELSE IF arr # <<>> /\ arr[1].t = "list" THEN ListsTable(arr)
          ELSE EmptyTable
    ELSE EmptyTable
  ELSE IF obj.t = "list" THEN
    IF obj.v = <<>> THEN EmptyTable
    ELSE IF obj.v[1].t = "dict" THEN DictsTable(obj.v, FALSE)
    ELSE IF obj.v[1].t = "list" THEN ListsTable(obj.v)
    ELSE EmptyTable
  ELSE EmptyTable

(* a file on disk: a CSV file holds its csv.reader rows, a JSON file the  *)
(* value json.load returns, or Corrupt when json.load raises               *)
Absent == [kind |-> "absent", body |-> <<>>]

CsvFile(lines) == [kind |-> "csv", body |-> lines]

JsonFile(obj) == [kind |-> "json", body |-> obj]

Corrupt == [t |-> "corrupt", v |-> <<>>]

(* a raised exception, in place of a returned table *)
Raised == [cols |-> <<"raised">>, rows |-> <<>>]

(* a variant that pads the short rows and keeps the long rows whole *)
read_csv_padding_only(file) ==
  LET lines == file.body
      cols  == [i \in DOMAIN lines[1] |-> Join(Strip(lines[1][i]))]
      W     == Len(cols)
  IN  IF lines = <<>> THEN EmptyTable
      ELSE [cols |-> cols,
            rows |-> [i \in 1..(Len(lines) - 1) |->
                        lines[i + 1] \o [j \in 1..(IF W > Len(lines[i + 1])
                                                     THEN W - Len(lines[i + 1]) ELSE 0) |-> <<>>]]]

read_csv(file) ==
  LET lines == file.body
      cols  == [i \in DOMAIN lines[1] |-> Join(Strip(lines[1][i]))]
      W     == Len(cols)
  IN  IF lines = <<>> THEN EmptyTable
      ELSE [cols |-> cols,
            rows |-> [i \in 1..(Len(lines) - 1) |->
                        [j \in 1..W |->
                           IF j <= Len(lines[i + 1]) THEN lines[i + 1][j] ELSE <<>>]]]

read_json_table_only(file) ==
  LET obj == file.body
  IN  IF obj.t = "corrupt" THEN Raised
      ELSE IF HasKey(obj, "result_set") THEN parse_table_from_obj(obj.v["result_set"])
      ELSE parse_table_from_obj(obj)

read_table_file(file) ==
  IF file.kind = "csv" THEN read_csv(file)
  ELSE IF file.kind = "json" THEN read_json_table_only(file)
  ELSE Raised

(* Optional[float] *)
None == [some |-> FALSE, val |-> Zero]

Some(x) == [some |-> TRUE, val |-> x]

(* float("nan") and float("inf"): outside the rationals *)
NonFinite == <<0, 0>>

(* float(x) or None when it raises *)
FloatOrNone(f) ==
  IF f.kind = "num" THEN Some(f.val)
  ELSE IF f.kind = "error" THEN None
  ELSE Some(NonFinite)

StrToFloat(xs) == IF xs = <<>> THEN None ELSE FloatOrNone(float(xs))

(* float(x) of an int too large raises OverflowError, outside the try *)
to_float_raises(x) == x.t = "hugeint"

to_float(x) ==
  IF x.t = "null" THEN None
  ELSE IF x.t = "bool" THEN Some(IF x = JBool(TRUE) THEN One ELSE Zero)
  ELSE IF x.t = "num" THEN FloatOrNone(float(x.v))
  ELSE IF x.t = "str" THEN StrToFloat(Strip(x.v))
  ELSE None

(* obj.get(key) *)
Get(obj, key) == IF key \in DOMAIN obj.v THEN obj.v[key] ELSE JNull

NoSubmission == [cols |-> <<>>, rows |-> <<>>, tokens |-> None, time |-> None, raised |-> FALSE]

(* the tuple (cols, rows, tokens, time) *)
Submission(table, tokens, time) ==
  [cols |-> table.cols, rows |-> table.rows, tokens |-> tokens, time |-> time,
   raised |-> FALSE]

(* a variant in which a missing submission file is an error *)
read_submission_file_strict(file) ==
  IF file.kind = "absent" THEN [NoSubmission EXCEPT !.raised = TRUE]
  ELSE IF file.kind = "csv" THEN Submission(read_csv(file), None, None)
  ELSE IF file.body.t = "corrupt" THEN [NoSubmission EXCEPT !.raised = TRUE]
  ELSE IF HasKey(file.body, "result_set") THEN
    Submission(parse_table_from_obj(file.body.v["result_set"]),
               to_float(Get(file.body, "tokens")), to_float(Get(file.body, "time")))
  ELSE Submission(parse_table_from_obj(file.body), None, None)

read_submission_file(file) ==
  IF file.kind = "absent" THEN NoSubmission
  ELSE IF file.kind = "csv" THEN Submission(read_csv(file), None, None)
  ELSE IF file.body.t = "corrupt" THEN [NoSubmission EXCEPT !.raised = TRUE]
  ELSE IF HasKey(file.body, "result_set") THEN
    IF to_float_raises(Get(file.body, "tokens")) \/ to_float_raises(Get(file.body, "time"))
      THEN [NoSubmission EXCEPT !.raised = TRUE]
    ELSE
    Submission(parse_table_from_obj(file.body.v["result_set"]),
               to_float(Get(file.body, "tokens")), to_float(Get(file.body, "time")))
  ELSE Submission(parse_table_from_obj(file.body), None, None)

----------------------------------------------------------------------------
(* _eval_query_once: one ground-truth file against the submission          *)
(* directory's files of the same stem.                                     *)

OtherSuffix(sfx) == IF sfx = ".csv" THEN ".json" ELSE ".csv"

(* the file sub_dir / (qid + sfx), Absent when it does not exist *)
SubFile(sub_dir, sfx) == IF sfx = ".csv" THEN sub_dir.csv ELSE sub_dir.json

QueryRaised ==
  [raised |-> TRUE, f1 |-> Zero, card |-> Zero, tcon |-> Zero, avg |-> Zero,
   tokens |-> None, time |-> None]

(* a variant that tries the .json file first, whatever the suffix *)
PrPathJsonFirst(sub_dir, gt_sfx) ==
  IF SubFile(sub_dir, ".json").kind # "absent" THEN SubFile(sub_dir, ".json")
  ELSE SubFile(sub_dir, ".csv")

(* sub_dir / (qid + suffix), else the file of the other suffix *)
PrPath(sub_dir, gt_sfx) ==
  IF SubFile(sub_dir, gt_sfx).kind # "absent" THEN SubFile(sub_dir, gt_sfx)
  ELSE SubFile(sub_dir, OtherSuffix(gt_sfx))

(* the tuple (f1, card, tcon, avg, tokens, time) *)
QueryResult(f1, card, tcon, tokens, time) ==
  [raised |-> FALSE, f1 |-> f1, card |-> card, tcon |-> tcon,
   avg |-> RatDivInt(RatAdd(RatAdd(f1, card), tcon), 3),
   tokens |-> tokens, time |-> time]

(* the three metrics on the tables read *)
ScoreTables(gt, pr, cell_mode, tuple_mode) ==
  IF gt = Raised \/ pr.raised THEN QueryRaised
  ELSE QueryResult(IF cell_mode = "similarity"
                     THEN f1_cell_similarity(gt.cols, gt.rows, pr.cols, pr.rows)
                     ELSE f1_cell_exact(gt.cols, gt.rows, pr.cols, pr.rows),
                   cardinality(gt.rows, pr.rows),
                   IF tuple_mode = "similarity"
                     THEN tuple_similarity_constraint(gt.rows, pr.rows)
                     ELSE tuple_constraint(gt.rows, pr.rows),
                   pr.tokens, pr.time)

eval_query_once(gt_file, sub_dir, gt_sfx, cell_mode, tuple_mode) ==
  ScoreTables(read_table_file(gt_file), read_submission_file(PrPath(sub_dir, gt_sfx)),
              cell_mode, tuple_mode)

----------------------------------------------------------------------------
(* Bounds and input pools.                                                 *)

(* most ground-truth query stems of one dataset *)
MaxQueries == 2

(* most rows of a table handed to a metric *)
MaxRows == 3

(* the selected datasets, in sorted() order *)
DatasetNames == <<"A", "B">>

Datasets == {DatasetNames[i] : i \in DOMAIN DatasetNames}

c10 == <<"1", "0">>

c9 == <<"9">>

cx == <<"x">>

(* [{"x": "10"}] *)
GtOneRowJson == JsonFile(JList(<<JDict("x" :> JStr(c10))>>))

(* x / 10 *)
GtOneRowCsv == CsvFile(<<<<cx>>, <<c10>>>>)

(* a header and no data row *)
GtEmptyCsv == CsvFile(<<<<cx>>>>)

(* x / 10 / 9 *)
SubTwoRowsCsv == CsvFile(<<<<cx>>, <<c10>>, <<c9>>>>)

(* {"result_set": [{"x": "10"}], "tokens": 3, "time": "2"} *)
SubFullBoth ==
  JsonFile(JDict(("result_set" :> JList(<<JDict("x" :> JStr(c10))>>))
                   @@ ("tokens" :> JNum(<<"3">>)) @@ ("time" :> JStr(<<"2">>))))

(* {"result_set": [{"x": "9"}], "tokens": "x", "time": 4} *)
SubFullTimeOnly ==
  JsonFile(JDict(("result_set" :> JList(<<JDict("x" :> JStr(c9))>>))
                   @@ ("tokens" :> JStr(cx)) @@ ("time" :> JNum(<<"4">>))))

(* {"result_set": [{"x": "10"}], "tokens": 3} *)
SubFullTokensOnly ==
  JsonFile(JDict(("result_set" :> JList(<<JDict("x" :> JStr(c10))>>))
                   @@ ("tokens" :> JNum(<<"3">>))))

(* the files one query can meet: the ground-truth file with its suffix and *)
(* the files of the same stem in the dataset's submission directory        *)
QueryInputs ==
  << [gt_sfx |-> ".json", gt |-> GtOneRowJson, sub |-> [csv |-> Absent, json |-> Absent]],
     [gt_sfx |-> ".csv", gt |-> GtEmptyCsv, sub |-> [csv |-> Absent, json |-> Absent]],
     [gt_sfx |-> ".json", gt |-> GtOneRowJson,
      sub |-> [csv |-> Absent, json |-> JsonFile(Corrupt)]],
     [gt_sfx |-> ".json", gt |-> GtOneRowJson, sub |-> [csv |-> Absent, json |-> SubFullBoth]],
     [gt_sfx |-> ".json", gt |-> GtOneRowJson,
      sub |-> [csv |-> Absent, json |-> SubFullTimeOnly]],
     [gt_sfx |-> ".csv", gt |-> GtOneRowCsv,
      sub |-> [csv |-> SubTwoRowsCsv, json |-> SubFullBoth]],
     [gt_sfx |-> ".csv", gt |-> GtOneRowCsv,
      sub |-> [csv |-> Absent, json |-> SubFullTokensOnly]] >>

CellModes == {"exact", "similarity"}

TupleModes == {"constraint", "similarity"}

(* _eval_query_once tabulated over the input pool *)
QueryScore ==
  [i \in DOMAIN QueryInputs, cm \in CellModes, tm \in TupleModes |->
     eval_query_once(QueryInputs[i].gt, QueryInputs[i].sub, QueryInputs[i].gt_sfx, cm, tm)]

(* the files of a ground-truth directory: <<stem, suffix>> *)
GtListings ==
  UNION {{ {<<q, ".json">> : q \in 1..n},
           {<<q, ".csv">> : q \in 1..n} \cup {<<1, ".json">>, <<n + 1, ".txt">>} }
         : n \in 0..MaxQueries}

----------------------------------------------------------------------------
(* The evaluation run: main() submits one _eval_dataset_once per dataset,  *)
(* which submits one _eval_query_once per ground-truth query; results are  *)
(* appended in completion order (as_completed), of which the sequential    *)
(* order of --jobs 1 / --jobs-queries 1 is one.  Dataset workers share no  *)
(* state, so they are run one after the other, in any order.               *)

VARIABLES
  args,        \* cell_metric, tuple_metric, overall
  sub_dsets,   \* the datasets that have a directory under --submissions
  pc,          \* "eval", "done", "aborted" (an exception left main), "metrics"
  todo,        \* datasets not yet evaluated
  cur,         \* the dataset of the current (or last) _eval_dataset_once
  wstate,      \* its state: "idle", "running", "returned"
  gt_listing,  \* the files of its ground-truth directory
  tasks,       \* its query tasks, sorted by stem
  pending,     \* the tasks not yet completed
  qresults,    \* its results list
  task_in,     \* the index in QueryInputs of the files the last query met
  results,     \* main's results list
  acc,         \* main's accumulators
  folded,      \* number of sorted results the accumulation loop has handled
  jout,        \* the per-dataset rows
  out,         \* the rows printed
  pooled,      \* history: number and metric sums of all the scored queries
  gt_table,     \* a metric's expected rows
  pr_table,     \* a metric's predicted rows
  metric,      \* the metric applied to them and its value
  cells,       \* the two strings handed to a cell function, and what it returned
  lru,         \* the lru_cache of a memoized function, and its last call
  reader,      \* a file handed to read_table_file, and the table it returned
  timing       \* the times of a dataset's queries, as floats, and their mean

vars ==
  <<args, sub_dsets, pc, todo, cur, wstate, gt_listing, tasks, pending, qresults,
    task_in, results, acc, folded, jout, out, pooled, gt_table, pr_table, metric,
    cells, lru, reader, timing>>

cellVars == <<cells, lru, reader, timing>>

ioVars == <<reader, timing>>

runVars ==
  <<args, sub_dsets, pc, todo, cur, wstate, gt_listing, tasks, pending, qresults,
    task_in, results, acc, folded, jout, out, pooled>>

(* no file has been read and no time has been summed *)
IoIdle ==
  /\ reader = [shape |-> "none", file |-> <<>>, table |-> <<>>, done |-> FALSE]
  /\ timing = [times |-> <<>>, jobs_queries |-> 1, completed |-> <<>>, avg_time |-> <<>>]

(* no cell function and no memoized function has been called *)
CellsIdle ==
  /\ cells = [a |-> <<>>, b |-> <<>>, fn |-> "none", value |-> FALSE]
  /\ lru = [fn |-> "none", entries |-> <<>>, returned |-> <<>>, hits |-> 0, misses |-> 0]
  /\ IoIdle

ZeroMetrics == [F1 |-> Zero, Card |-> Zero, TCon |-> Zero, AVG |-> Zero, n |-> 0]

NoMetric == [name |-> "none", value |-> Zero]

InitAcc ==
  [tot_q |-> 0, sF1 |-> Zero, sCard |-> Zero, sTCon |-> Zero, sAVG |-> Zero,
   all_datasets_have_tokens |-> TRUE, all_datasets_have_time |-> TRUE,
   overall_tokens_sum |-> Zero, overall_time_weighted_sum |-> Zero,
   overall_time_weight_n |-> 0]

(* main() before the first dataset is submitted *)
RunIdle ==
  /\ pc = "eval"
  /\ todo = Datasets
  /\ cur = ""
  /\ wstate = "idle"
  /\ gt_listing = {}
  /\ tasks = <<>>
  /\ pending = {}
  /\ qresults = <<>>
  /\ task_in = 0
  /\ results = <<>>
  /\ acc = InitAcc
  /\ folded = 0
  /\ jout = <<>>
  /\ out = <<>>
  /\ pooled = ZeroMetrics

Init ==
  /\ args \in [cell_metric : CellModes, tuple_metric : TupleModes, overall : BOOLEAN]
  /\ sub_dsets \in SUBSET Datasets
  /\ RunIdle
  /\ gt_table = <<>>
  /\ pr_table = <<>>
  /\ metric = NoMetric
  /\ CellsIdle

Supported == {".csv", ".json"}

(* a variant that globs "*.json" only *)
GtStemsJsonOnly(listing) == {f[1] : f \in {g \in listing : g[2] = ".json"}}

(* the keys of gt_files *)
GtStems(listing) == {f[1] : f \in {g \in listing : g[2] \in Supported}}

(* the k-th smallest element of a set of numbers *)
Nth(S, k) == CHOOSE x \in S : Cardinality({y \in S : y < x}) = k - 1

(* sorted(gt_files.items()): one task per stem; when a stem has a file of  *)
(* each suffix the dict keeps the one glob yields last                     *)
TaskLists(listing) ==
  {t \in [1..Cardinality(GtStems(listing)) -> [qid : GtStems(listing), sfx : Supported]] :
     \A k \in DOMAIN t :
        /\ t[k].qid = Nth(GtStems(listing), k)
        /\ <<t[k].qid, t[k].sfx>> \in listing}

(* a variant in which a dataset without a submission directory ends the run *)
SkipDatasetFails(d) ==
  /\ pc = "eval" /\ wstate # "running"
  /\ d \in todo /\ d \notin sub_dsets
  /\ pc' = "aborted"
  /\ UNCHANGED <<args, sub_dsets, todo, cur, wstate, gt_listing, tasks, pending, qresults,
                 task_in, results, acc, folded, jout, out, pooled, gt_table, pr_table, metric, cellVars>>

(* _eval_dataset_once, "if not sub_dir": the ground-truth directory, which *)
(* holds any of the listings, is not read                                  *)
SkipDataset(d) ==
  /\ pc = "eval" /\ wstate # "running"
  /\ d \in todo /\ d \notin sub_dsets
  /\ todo' = todo \ {d}
  /\ cur' = d
  /\ wstate' = "returned"
  /\ gt_listing' \in GtListings
  /\ tasks' = <<>>
  /\ pending' = {}
  /\ qresults' = <<>>
  /\ task_in' = 0
  /\ results' = Append(results,
       [dname |-> d, m |-> ZeroMetrics, d_tokens |-> None, d_avg_time |-> None])
  /\ UNCHANGED <<args, sub_dsets, pc, acc, folded, jout, out, pooled, gt_table, pr_table, metric, cellVars>>

(* _eval_dataset_once, building the tasks *)
DiscoverQueries(d) ==
  /\ pc = "eval" /\ wstate # "running"
  /\ d \in todo /\ d \in sub_dsets
  /\ \E listing \in GtListings : \E t \in TaskLists(listing) :
        /\ gt_listing' = listing
        /\ tasks' = t
        /\ pending' = DOMAIN t
  /\ todo' = todo \ {d}
  /\ cur' = d
  /\ wstate' = "running"
  /\ qresults' = <<>>
  /\ task_in' = 0
  /\ UNCHANGED <<args, sub_dsets, pc, results, acc, folded, jout, out, pooled,
                 gt_table, pr_table, metric, cellVars>>

(* one _eval_query_once completes and its result is appended; an exception *)
(* it raises leaves _eval_dataset_once and main                            *)
EvalQuery(t) ==
  /\ pc = "eval" /\ wstate = "running"
  /\ t \in pending
  /\ \E i \in DOMAIN QueryInputs :
        /\ QueryInputs[i].gt_sfx = tasks[t].sfx
        /\ task_in' = i
        /\ \E r \in {QueryScore[i, args.cell_metric, args.tuple_metric]} :
              IF r.raised
                THEN /\ pc' = "aborted"
                     /\ UNCHANGED <<pending, qresults, pooled>>
                ELSE /\ pc' = pc
                     /\ pending' = pending \ {t}
                     /\ qresults' = Append(qresults, r)
                     /\ pooled' = [F1 |-> RatAdd(pooled.F1, r.f1),
                                   Card |-> RatAdd(pooled.Card, r.card),
                                   TCon |-> RatAdd(pooled.TCon, r.tcon),
                                   AVG |-> RatAdd(pooled.AVG, r.avg),
                                   n |-> pooled.n + 1]
  /\ UNCHANGED <<args, sub_dsets, todo, cur, wstate, gt_listing, tasks, results, acc,
                 folded, jout, out, gt_table, pr_table, metric, cellVars>>

Column(qres, field) == [i \in DOMAIN qres |-> qres[i][field]]

Values(list) == [i \in DOMAIN list |-> list[i].val]

Present(list) == SelectSeq(list, LAMBDA x : x.some)

(* a variant that sums and averages the values that are present *)
dataset_scorecard_lenient(dname, qres) ==
  IF Len(qres) = 0
    THEN [dname |-> dname, m |-> ZeroMetrics, d_tokens |-> None, d_avg_time |-> None]
    ELSE [dname |-> dname,
          m |-> [F1 |-> RatDivInt(RatSum(Column(qres, "f1")), Len(qres)),
                 Card |-> RatDivInt(RatSum(Column(qres, "card")), Len(qres)),
                 TCon |-> RatDivInt(RatSum(Column(qres, "tcon")), Len(qres)),
                 AVG |-> RatDivInt(RatSum(Column(qres, "avg")), Len(qres)),
                 n |-> Len(qres)],
          d_tokens |-> IF Present(Column(qres, "tokens")) # <<>>
                         THEN Some(RatSum(Values(Present(Column(qres, "tokens")))))
                         ELSE None,
          d_avg_time |-> IF Present(Column(qres, "time")) # <<>>
                           THEN Some(RatDivInt(RatSum(Values(Present(Column(qres, "time")))),
                                               Len(Present(Column(qres, "time")))))
                           ELSE None]

(* _eval_dataset_once, from "n = len(results)" to the return *)
dataset_scorecard(dname, qres) ==
  LET n == Len(qres)
      tokens_list == Column(qres, "tokens")
      time_list == Column(qres, "time")
      all_have_tokens == \A i \in DOMAIN tokens_list : tokens_list[i].some
      all_have_time == \A i \in DOMAIN time_list : time_list[i].some
  IN  IF n = 0
        THEN [dname |-> dname, m |-> ZeroMetrics, d_tokens |-> None, d_avg_time |-> None]
        ELSE [dname |-> dname,
              m |-> [F1 |-> RatDivInt(RatSum(Column(qres, "f1")), n),
                     Card |-> RatDivInt(RatSum(Column(qres, "card")), n),
                     TCon |-> RatDivInt(RatSum(Column(qres, "tcon")), n),
                     AVG |-> RatDivInt(RatSum(Column(qres, "avg")), n),
                     n |-> n],
              d_tokens |-> IF all_have_tokens THEN Some(RatSum(Values(tokens_list)))
                           ELSE None,
              d_avg_time |-> IF all_have_time
                               THEN Some(RatDivInt(RatSum(Values(time_list)), Len(time_list)))
                               ELSE None]

FinishDataset ==
  /\ pc = "eval" /\ wstate = "running"
  /\ pending = {}
  /\ wstate' = "returned"
  /\ results' = Append(results, dataset_scorecard(cur, qresults))
  /\ UNCHANGED <<args, sub_dsets, pc, todo, cur, gt_listing, tasks, pending, qresults,
                 task_in, acc, folded, jout, out, pooled, gt_table, pr_table, metric, cellVars>>

NameIndex(d) == CHOOSE i \in DOMAIN DatasetNames : DatasetNames[i] = d

(* sorted(results, key=lambda x: x[0]) *)
sorted_results(res) ==
  [k \in DOMAIN res |->
     res[CHOOSE i \in DOMAIN res :
           Cardinality({j \in DOMAIN res :
              NameIndex(res[j].dname) < NameIndex(res[i].dname)}) = k - 1]]

(* a variant that adds the dataset means without their query counts *)
accumulate_unweighted(a, r) ==
  [tot_q |-> a.tot_q + r.m.n,
   sF1   |-> RatAdd(a.sF1, r.m.F1),
   sCard |-> RatAdd(a.sCard, r.m.Card),
   sTCon |-> RatAdd(a.sTCon, r.m.TCon),
   sAVG  |-> RatAdd(a.sAVG, r.m.AVG),
   all_datasets_have_tokens |-> a.all_datasets_have_tokens /\ r.d_tokens.some,
   overall_tokens_sum |->
     IF r.d_tokens.some THEN RatAdd(a.overall_tokens_sum, r.d_tokens.val)
     ELSE a.overall_tokens_sum,
   all_datasets_have_time |->
     a.all_datasets_have_time /\ ~(~r.d_avg_time.some \/ r.m.n = 0),
   overall_time_weighted_sum |->
     IF ~r.d_avg_time.some \/ r.m.n = 0 THEN a.overall_time_weighted_sum
     ELSE RatAdd(a.overall_time_weighted_sum, RatMul(r.d_avg_time.val, <<r.m.n, 1>>)),
   overall_time_weight_n |->
     IF ~r.d_avg_time.some \/ r.m.n = 0 THEN a.overall_time_weight_n
     ELSE a.overall_time_weight_n + r.m.n]

(* one round of main's accumulation loop, for the dataset result r *)
accumulate(a, r) ==
  [tot_q |-> a.tot_q + r.m.n,
   sF1   |-> RatAdd(a.sF1, RatMul(r.m.F1, <<r.m.n, 1>>)),
   sCard |-> RatAdd(a.sCard, RatMul(r.m.Card, <<r.m.n, 1>>)),
   sTCon |-> RatAdd(a.sTCon, RatMul(r.m.TCon, <<r.m.n, 1>>)),
   sAVG  |-> RatAdd(a.sAVG, RatMul(r.m.AVG, <<r.m.n, 1>>)),
   all_datasets_have_tokens |-> a.all_datasets_have_tokens /\ r.d_tokens.some,
   overall_tokens_sum |->
     IF r.d_tokens.some THEN RatAdd(a.overall_tokens_sum, r.d_tokens.val)
     ELSE a.overall_tokens_sum,
   all_datasets_have_time |->
     a.all_datasets_have_time /\ ~(~r.d_avg_time.some \/ r.m.n = 0),
   overall_time_weighted_sum |->
     IF ~r.d_avg_time.some \/ r.m.n = 0 THEN a.overall_time_weighted_sum
     ELSE RatAdd(a.overall_time_weighted_sum, RatMul(r.d_avg_time.val, <<r.m.n, 1>>)),
   overall_time_weight_n |->
     IF ~r.d_avg_time.some \/ r.m.n = 0 THEN a.overall_time_weight_n
     ELSE a.overall_time_weight_n + r.m.n]

(* the row of one dataset: jout[dname] *)
dataset_row(r) ==
  [name |-> r.dname, F1 |-> r.m.F1, Card |-> r.m.Card, TCon |-> r.m.TCon,
   AVG |-> r.m.AVG, n |-> r.m.n, tokens |-> r.d_tokens, time |-> r.d_avg_time]

Accumulate ==
  /\ pc = "eval" /\ wstate # "running" /\ todo = {}
  /\ folded < Len(results)
  /\ LET r == sorted_results(results)[folded + 1]
     IN  /\ acc' = accumulate(acc, r)
         /\ jout' = IF ~args.overall THEN Append(jout, dataset_row(r)) ELSE jout
  /\ folded' = folded + 1
  /\ UNCHANGED <<args, sub_dsets, pc, todo, cur, wstate, gt_listing, tasks, pending,
                 qresults, task_in, results, out, pooled, gt_table, pr_table, metric, cellVars>>

(* the metric columns of the ALL row *)
OverallMetrics(a) ==
  [name |-> "ALL",
   F1   |-> IF a.tot_q = 0 THEN Zero ELSE RatDivInt(a.sF1, a.tot_q),
   Card |-> IF a.tot_q = 0 THEN Zero ELSE RatDivInt(a.sCard, a.tot_q),
   TCon |-> IF a.tot_q = 0 THEN Zero ELSE RatDivInt(a.sTCon, a.tot_q),
   AVG  |-> IF a.tot_q = 0 THEN Zero ELSE RatDivInt(a.sAVG, a.tot_q),
   n    |-> IF a.tot_q = 0 THEN 0 ELSE a.tot_q]

(* overall_tokens *)
OverallTokens(a) ==
  IF a.all_datasets_have_tokens /\ a.tot_q > 0 THEN Some(a.overall_tokens_sum) ELSE None

(* overall_time *)
OverallTime(a) ==
  IF a.all_datasets_have_time /\ a.overall_time_weight_n > 0
    THEN Some(RatDivInt(a.overall_time_weighted_sum, a.overall_time_weight_n))
    ELSE None

(* a variant of the ALL row that reports the tokens summed so far *)
overall_row_tokens_lenient(a) ==
  OverallMetrics(a) @@
  [tokens |-> IF a.tot_q > 0 THEN Some(a.overall_tokens_sum) ELSE None,
   time |-> OverallTime(a)]

(* a variant of the ALL row that averages the times of the datasets that have one *)
overall_row_time_lenient(a) ==
  OverallMetrics(a) @@
  [tokens |-> OverallTokens(a),
   time |-> IF a.overall_time_weight_n > 0
              THEN Some(RatDivInt(a.overall_time_weighted_sum, a.overall_time_weight_n))
              ELSE None]

(* the ALL row *)
overall_row(a) ==
  OverallMetrics(a) @@ [tokens |-> OverallTokens(a), time |-> OverallTime(a)]

Output ==
  /\ pc = "eval" /\ wstate # "running" /\ todo = {}
  /\ folded = Len(results)
  /\ out' = IF args.overall THEN <<overall_row(acc)>> ELSE jout
  /\ pc' = "done"
  /\ UNCHANGED <<args, sub_dsets, todo, cur, wstate, gt_listing, tasks, pending, qresults,
                 task_in, results, acc, folded, jout, pooled, gt_table, pr_table, metric, cellVars>>

Next ==
  \/ \E d \in Datasets : SkipDataset(d)
  \/ \E d \in Datasets : DiscoverQueries(d)
  \/ \E t \in 1..(MaxQueries + 1) : EvalQuery(t)
  \/ FinishDataset
  \/ Accumulate
  \/ Output

Spec == Init /\ [][Next]_vars

----------------------------------------------------------------------------
(* The metrics as pure functions: the expected and the predicted rows are  *)
(* drawn from the tables over RowPool, of one row width each as the        *)
(* readers return them, and each metric is applied to them.                *)

cNaN == <<"N", "a", "N">>

ca == <<"a">>

cA == <<"A", " ">>

c1 == <<"1">>

(* "A " normalizes to "a": the last two rows are one normalized row *)
RowPool == {<<>>, <<c10>>, <<c9>>, <<cNaN>>, <<ca, c1>>, <<cA, c1>>}

RowsOfWidth(w) == {r \in RowPool : Len(r) = w}

Tables ==
  UNION {[1..n -> RowsOfWidth(w)] : n \in 0..MaxRows, w \in {Len(r) : r \in RowPool}}

InitMetrics ==
  /\ args = [cell_metric |-> "exact", tuple_metric |-> "constraint", overall |-> FALSE]
  /\ sub_dsets = {}
  /\ RunIdle
  /\ gt_table \in Tables
  /\ pr_table \in Tables
  /\ metric = NoMetric
  /\ CellsIdle

ApplyTupleConstraint ==
  /\ metric.name = "none"
  /\ metric' = [name |-> "tuple_constraint", value |-> tuple_constraint(gt_table, pr_table)]
  /\ UNCHANGED <<runVars, gt_table, pr_table, cellVars>>

ApplyTupleSimilarity ==
  /\ metric.name = "none"
  /\ metric' = [name |-> "tuple_similarity_constraint",
                 value |-> tuple_similarity_constraint(gt_table, pr_table)]
  /\ UNCHANGED <<runVars, gt_table, pr_table, cellVars>>

(* a header of one name per column *)
HeaderFor(table) ==
  IF table = <<>> THEN <<cx>> ELSE [j \in 1..Len(table[1]) |-> cx]

(* _eval_query_once on the ground-truth rows written as a CSV file, with   *)
(* no file of the query's stem in the submission directory                 *)
EvalMissingSubmission ==
  /\ metric.name = "none"
  /\ pr_table = <<>>
  /\ \E cm \in CellModes, tm \in TupleModes :
        metric' = [name |-> "missing_submission",
                   value |-> eval_query_once(CsvFile(<<HeaderFor(gt_table)>> \o gt_table),
                                             [csv |-> Absent, json |-> Absent], ".csv", cm, tm)]
  /\ UNCHANGED <<runVars, gt_table, pr_table, cellVars>>

NextMetrics ==
  \/ ApplyTupleConstraint
  \/ ApplyTupleSimilarity
  \/ EvalMissingSubmission

SpecMetrics == InitMetrics /\ [][NextMetrics]_vars

----------------------------------------------------------------------------
(* The cell and row-count metrics, and the five metrics on reordered       *)
(* tables, applied to the tables of Tables.                                *)

ApplyCellF1Exact ==
  /\ metric.name = "none"
  /\ metric' = [name |-> "f1_cell_exact",
                 value |-> f1_cell_exact(HeaderFor(gt_table), gt_table,
                                         HeaderFor(pr_table), pr_table)]
  /\ UNCHANGED <<runVars, gt_table, pr_table, cellVars>>

(* cardinality, called in both argument orders *)
ApplyCardinality ==
  /\ metric.name = "none"
  /\ metric' = [name |-> "cardinality",
                 value |-> [forward |-> cardinality(gt_table, pr_table),
                            backward |-> cardinality(pr_table, gt_table)]]
  /\ UNCHANGED <<runVars, gt_table, pr_table, cellVars>>

(* the metrics _eval_query_once chooses from, on one pair of tables *)
AllMetrics(gt, pr) ==
  [f1_exact |-> f1_cell_exact(HeaderFor(gt), gt, HeaderFor(pr), pr),
   f1_similarity |-> f1_cell_similarity(HeaderFor(gt), gt, HeaderFor(pr), pr),
   card |-> cardinality(gt, pr),
   tcon |-> tuple_constraint(gt, pr),
   tsim |-> tuple_similarity_constraint(gt, pr)]

(* the rows of the table in the order p *)
Reordered(table, p) == [i \in DOMAIN table |-> table[p[i]]]

(* the scores of the two tables, kept with the tables they were read from *)
Scored(gt, pr) == [gt |-> gt, pr |-> pr, scores |-> AllMetrics(gt, pr)]

(* the metrics when the ground-truth file holds its rows in another order *)
ApplyReorderedExpected ==
  /\ metric.name = "none"
  /\ \E p \in Permutations(DOMAIN gt_table) :
        metric' = [name |-> "reordered", value |-> Scored(Reordered(gt_table, p), pr_table)]
  /\ UNCHANGED <<runVars, gt_table, pr_table, cellVars>>

(* the metrics when the submission file holds its rows in another order *)
ApplyReorderedPredicted ==
  /\ metric.name = "none"
  /\ \E q \in Permutations(DOMAIN pr_table) :
        metric' = [name |-> "reordered", value |-> Scored(gt_table, Reordered(pr_table, q))]
  /\ UNCHANGED <<runVars, gt_table, pr_table, cellVars>>

NextCellMetrics ==
  \/ ApplyCellF1Exact
  \/ ApplyCardinality

SpecCellMetrics == InitMetrics /\ [][NextCellMetrics]_vars

NextReordered ==
  \/ ApplyReorderedExpected
  \/ ApplyReorderedPredicted

SpecReordered == InitMetrics /\ [][NextReordered]_vars

(* the metrics of src/galois_eval.py on one pair of tables; f1_cell_exact, *)
(* cardinality and tuple_constraint have the same text in the two files    *)
(* but for the gt == pr shortcut of f1_cell_exact, whose value the         *)
(* harmonic mean of two ones also gives                                    *)
AllMetricsOriginal(gt, pr) ==
  [f1_exact |-> f1_cell_exact(HeaderFor(gt), gt, HeaderFor(pr), pr),
   f1_similarity |-> f1_cell_similarity_original(HeaderFor(gt), gt, HeaderFor(pr), pr),
   card |-> cardinality(gt, pr),
   tcon |-> tuple_constraint(gt, pr),
   tsim |-> tuple_similarity_constraint_original(gt, pr)]

(* the five metrics of each evaluator file on the two tables *)
ApplyAllMetrics ==
  /\ metric.name = "none"
  /\ metric' = [name |-> "all_metrics",
                 value |-> [optimized |-> AllMetrics(gt_table, pr_table),
                            original |-> AllMetricsOriginal(gt_table, pr_table)]]
  /\ UNCHANGED <<runVars, gt_table, pr_table, cellVars>>

(* the fuzzy cell F1 alone, with the two cell sets it is computed from *)
ApplyCellF1Similarity ==
  /\ metric.name = "none"
  /\ metric' = [name |-> "f1_cell_similarity",
                 value |-> f1_cell_similarity(HeaderFor(gt_table), gt_table,
                                              HeaderFor(pr_table), pr_table)]
  /\ UNCHANGED <<runVars, gt_table, pr_table, cellVars>>

(* _eval_query_once on the two tables as read from their files *)
QueryOn(gt, pr, cell_mode, tuple_mode) ==
  ScoreTables([cols |-> HeaderFor(gt), rows |-> gt],
              Submission([cols |-> HeaderFor(pr), rows |-> pr], None, None),
              cell_mode, tuple_mode)

(* the scorecards of _eval_dataset_once for a dataset of one query and a   *)
(* dataset of two                                                          *)
ScorecardsOn(forward, backward) ==
  <<dataset_scorecard(DatasetNames[1], <<forward>>),
    dataset_scorecard(DatasetNames[2], <<backward, forward>>)>>

(* the rows main() writes for the two scorecards, and its ALL row *)
RowsOf(cards) ==
  [datasets |-> <<dataset_row(cards[1]), dataset_row(cards[2])>>,
   overall |-> overall_row(accumulate(accumulate(InitAcc, cards[1]), cards[2]))]

(* main() on two datasets whose queries are the two tables compared one    *)
(* way and the other: the query results, the dataset rows and the ALL row  *)
Scorecards(forward, backward) ==
  [queries |-> <<forward, backward>>] @@ RowsOf(ScorecardsOn(forward, backward))

ApplyScorecards ==
  /\ metric.name = "none"
  /\ \E cm \in CellModes, tm \in TupleModes :
        metric' = [name |-> "scorecards",
                   value |-> Scorecards(QueryOn(gt_table, pr_table, cm, tm),
                                        QueryOn(pr_table, gt_table, cm, tm))]
  /\ UNCHANGED <<runVars, gt_table, pr_table, cellVars>>

SpecScorecards == InitMetrics /\ [][ApplyScorecards]_vars

(* The metric functions as calls on the list objects of the caller: what a *)
(* call returns, and what it leaves in the lists it was given.             *)

(* a variant that writes the normalized cells into the rows it was given *)
normalize_rows_in_place(rows) ==
  [rows |-> normalize_rows_full(rows), ret |-> normalize_rows_full(rows)]

(* [[norm(v) for v in r] for r in rows]: a new list of new lists *)
normalize_rows_full_call(rows) ==
  [rows |-> rows, ret |-> normalize_rows_full(rows)]

(* sorted(norm_rows, key=...): a new list *)
sort_by_second_cell_call(norm_rows) ==
  [rows |-> norm_rows, ret |-> sort_by_second_cell(norm_rows)]

MetricFunctions ==
  {"cells_set", "f1_cell_exact", "f1_cell_similarity", "cardinality",
   "tuple_constraint", "tuple_similarity_constraint"}

(* the value of the call and the four lists after it *)
Returned(ret, gt_cols, gt_rows, pr_cols, pr_rows) ==
  [ret |-> ret, gt_cols |-> gt_cols, gt_rows |-> gt_rows,
   pr_cols |-> pr_cols, pr_rows |-> pr_rows]

(* cells_set and the cell metrics iterate over rows, cardinality takes     *)
(* len(rows); the tuple metrics hand rows to _normalize_rows_full and its  *)
(* result to _sort_by_second_cell (tuple_constraint) and to Counter        *)
MetricCall(fn, gt_cols, gt_rows, pr_cols, pr_rows) ==
  LET gt_nr == normalize_rows_full_call(gt_rows)
      pr_nr == normalize_rows_full_call(pr_rows)
      gt_sorted == sort_by_second_cell_call(gt_nr.ret)
      pr_sorted == sort_by_second_cell_call(pr_nr.ret)
  IN  CASE fn = "cells_set" ->
             Returned(<<cells_set(gt_cols, gt_rows), cells_set(pr_cols, pr_rows)>>,
                      gt_cols, gt_rows, pr_cols, pr_rows)
        [] fn = "f1_cell_exact" ->
             Returned(f1_cell_exact(gt_cols, gt_rows, pr_cols, pr_rows),
                      gt_cols, gt_rows, pr_cols, pr_rows)
        [] fn = "f1_cell_similarity" ->
             Returned(f1_cell_similarity(gt_cols, gt_rows, pr_cols, pr_rows),
                      gt_cols, gt_rows, pr_cols, pr_rows)
        [] fn = "cardinality" ->
             Returned(cardinality(gt_rows, pr_rows), gt_cols, gt_rows, pr_cols, pr_rows)
        [] fn = "tuple_constraint" ->
             Returned(ConstraintScore(Counter(gt_sorted.ret), Counter(pr_sorted.ret)),
                      gt_cols, gt_nr.rows, pr_cols, pr_nr.rows)
        [] fn = "tuple_similarity_constraint" ->
             Returned(SimilarityScore(Counter(gt_nr.ret), Counter(pr_nr.ret)),
                      gt_cols, gt_nr.rows, pr_cols, pr_nr.rows)

(* a metric function is called on the two tables the caller holds *)
CallMetric(fn) ==
  /\ metric.name = "none"
  /\ LET call == MetricCall(fn, HeaderFor(gt_table), gt_table, HeaderFor(pr_table), pr_table)
     IN  /\ metric' = [name |-> "call",
                        value |-> [fn |-> fn, ret |-> call.ret,
                                   gt_cols |-> call.gt_cols, pr_cols |-> call.pr_cols]]
         /\ gt_table' = call.gt_rows
         /\ pr_table' = call.pr_rows
  /\ UNCHANGED <<runVars, cellVars>>

NextCalls == \E fn \in MetricFunctions : CallMetric(fn)

SpecCalls == InitMetrics /\ [][NextCalls]_vars

NextScores ==
  \/ ApplyAllMetrics
  \/ ApplyCellF1Similarity

SpecScores == InitMetrics /\ [][NextScores]_vars

----------------------------------------------------------------------------
(* The cell functions, applied to the strings of CellPool.                 *)

(* numbers around the tolerance of one tenth and around zero, and the     *)
(* number one written with and without a decimal point                    *)
NumericCells ==
  {c1,
   <<"1", ".", "0">>,
   <<"1", "0", "0">>,
   <<"1", "0", "9">>,
   <<"1", "1", "0">>,
   <<"1", "1", "1">>,
   <<"9", "0">>,
   <<"0">>,
   <<"0", ".", "0", "5">>,
   <<"0", ".", "2">>,
   <<"0", ",", "0", "5">>,
   <<"n", "a", "n">>}

(* words within zero, one and two edits of a word of ten letters *)
WordCells ==
  {<<"a", "b", "c", "d", "e", "f", "g", "h", "i", "j">>,
   <<"a", "b", "c", "d", "e", "f", "g", "h", "i", "z">>,
   <<"a", "b", "c", "d", "e", "f", "g", "h", "i">>,
   <<"a", "b", "c", "d", "e", "f", "g", "h", "i", "j", "k">>,
   <<"a", "b", "c", "d", "e", "f", "g", "h", "y", "z">>,
   <<"a", "b", "c", "d", "e", "f", "g", "h">>,
   <<"b", "a", "c", "d", "e", "f", "g", "h", "i", "j">>,
   <<>>,
   <<"a", "b">>,
   <<"a", "c">>}

(* cells with an embedded newline, commas or capitals, and plain numbers *)
OtherCells ==
  {<<" ", "A", "b", "\n", "C", " ">>,
   <<"1", "\n", ".", "5">>,
   <<"0", "\n", "7">>,
   <<"5", " ", "m", "i", "l", "\n", "l", "i", "o", "n">>,
   <<"x", ",", "Y">>,
   <<"2", "5", "0", "0", "0", "0", "0">>,
   <<"1", ",", "2", "3", "4", ".", "5", "0">>}

MagnitudeNumbers == {<<"2", ".", "5">>, <<"3">>, <<"1", ".", "2", "3", "4", "6">>}

MagnitudeSpaces == {<<>>, <<" ">>}

MagnitudeWords ==
  {<<"m", "i", "l", "l", "i", "o", "n">>,
   <<"m">>,
   <<"b", "i", "l", "l", "i", "o", "n">>,
   <<"B">>,
   <<"t", "h", "o", "u", "s", "a", "n", "d">>,
   <<"K">>}

(* <number> <magnitude word> *)
MagnitudeCells ==
  {n \o sp \o w : n \in MagnitudeNumbers, sp \in MagnitudeSpaces, w \in MagnitudeWords}

CellPool == NumericCells \cup WordCells \cup OtherCells \cup MagnitudeCells

InitCells ==
  /\ args = [cell_metric |-> "exact", tuple_metric |-> "constraint", overall |-> FALSE]
  /\ sub_dsets = {}
  /\ RunIdle
  /\ gt_table = <<>>
  /\ pr_table = <<>>
  /\ metric = NoMetric
  /\ cells \in [a : CellPool, b : CellPool, fn : {"none"}, value : {FALSE}]
  /\ lru = [fn |-> "none", entries |-> <<>>, returned |-> <<>>, hits |-> 0, misses |-> 0]
  /\ IoIdle

(* cells_similar(a, b) of each evaluator file *)
ApplyCellsSimilar ==
  /\ cells.fn = "none"
  /\ cells' = [cells EXCEPT !.fn = "cells_similar",
                             !.value = [optimized |-> cells_similar(cells.a, cells.b),
                                        original |-> cells_similar_original(cells.a, cells.b)]]
  /\ UNCHANGED <<runVars, gt_table, pr_table, metric, lru, ioVars>>

(* _normalize_string(a), and _normalize_string of what it returned *)
ApplyNormalize ==
  /\ cells.fn = "none"
  /\ \E once \in {normalize_string(cells.a)} :
        cells' = [cells EXCEPT !.fn = "normalize_string",
                               !.value = [once |-> once, twice |-> normalize_string(once)]]
  /\ UNCHANGED <<runVars, gt_table, pr_table, metric, lru, ioVars>>

(* the exact metrics on the tables [[a]] and [[b]] of one row of one cell *)
ApplyExactOnCells ==
  /\ cells.fn = "none"
  /\ cells' = [cells EXCEPT
                 !.fn = "exact_metrics",
                 !.value = [f1_exact |-> f1_cell_exact(<<cx>>, <<<<cells.a>>>>, <<cx>>, <<<<cells.b>>>>),
                            tcon |-> tuple_constraint(<<<<cells.a>>>>, <<<<cells.b>>>>)]]
  /\ UNCHANGED <<runVars, gt_table, pr_table, metric, lru, ioVars>>

NextCells ==
  \/ ApplyCellsSimilar
  \/ ApplyNormalize
  \/ ApplyExactOnCells

SpecCells == InitCells /\ [][NextCells]_vars

----------------------------------------------------------------------------
(* Memoization: functools.lru_cache on _normalize_string, _edit_distance,  *)
(* _cells_similar_default and rows_similar_cached.  Each worker process    *)
(* holds its own caches and calls the functions one after the other.  The  *)
(* cache is the sequence of its entries [key, value], least recently used  *)
(* first; lru.returned is <<key, value>> of the last call; hits and misses *)
(* are the counters of cache_info().                                       *)

(* maxsize: 200_000 and 500_000 in the code *)
CacheSize == 2

(* the calls of one worker process *)
MaxCalls == 4

MemoizedFunctions ==
  {"_normalize_string", "_edit_distance", "_cells_similar_default", "rows_similar_cached"}

CellPairs == {<<c10, c9>>, <<c9, c10>>, <<c10, c10>>, <<c10, cx>>}

RowPairs ==
  {<<<<c10>>, <<c9>>>>, <<<<c9>>, <<c10>>>>, <<<<c10>>, <<c10, c9>>>>, <<<<cNaN>>, <<cNaN>>>>}

(* the argument tuples the function is called with *)
CallsOf(fn) ==
  IF fn = "_normalize_string" THEN {<<c>> : c \in OtherCells}
  ELSE IF fn = "rows_similar_cached" THEN RowPairs
  ELSE CellPairs

(* the wrapped function, called on the argument tuple *)
Uncached(fn, key) ==
  IF fn = "_normalize_string" THEN normalize_string(key[1])
  ELSE IF fn = "_edit_distance" THEN edit_distance(key[1], key[2])
  ELSE IF fn = "_cells_similar_default" THEN cells_similar_default(key[1], key[2])
  ELSE rows_similar_cached(key[1], key[2])

CachedKeys(entries) == {entries[i].key : i \in DOMAIN entries}

PositionOf(entries, key) == CHOOSE i \in DOMAIN entries : entries[i].key = key

(* a variant that reads the least recently used entry *)
CacheGetOldest(entries, key) == entries[1].value

(* cache_get(key): the result stored with the key *)
CacheGet(entries, key) == entries[PositionOf(entries, key)].value

(* a hit moves the entry to the most recently used end *)
MoveToEnd(entries, i) ==
  SubSeq(entries, 1, i - 1) \o SubSeq(entries, i + 1, Len(entries)) \o <<entries[i]>>

(* a miss stores the result, in place of the oldest entry when full *)
CachePut(entries, key, result) ==
  (IF Len(entries) >= CacheSize THEN Tail(entries) ELSE entries)
    \o <<[key |-> key, value |-> result]>>

InitCache ==
  /\ args = [cell_metric |-> "exact", tuple_metric |-> "constraint", overall |-> FALSE]
  /\ sub_dsets = {}
  /\ RunIdle
  /\ gt_table = <<>>
  /\ pr_table = <<>>
  /\ metric = NoMetric
  /\ cells = [a |-> <<>>, b |-> <<>>, fn |-> "none", value |-> FALSE]
  /\ lru \in [fn : MemoizedFunctions, entries : {<<>>}, returned : {<<>>},
              hits : {0}, misses : {0}]
  /\ IoIdle

(* one call of the lru_cache wrapper *)
CallWrapper(fn, key) ==
  /\ lru.fn = fn
  /\ lru.hits + lru.misses < MaxCalls
  /\ IF key \in CachedKeys(lru.entries)
       THEN lru' = [lru EXCEPT !.entries = MoveToEnd(@, PositionOf(@, key)),
                               !.returned = <<key, CacheGet(lru.entries, key)>>,
                               !.hits = @ + 1]
     ELSE \E result \in {Uncached(fn, key)} :
            lru' = [lru EXCEPT !.entries = CachePut(@, key, result),
                               !.returned = <<key, result>>,
                               !.misses = @ + 1]
  /\ UNCHANGED <<runVars, gt_table, pr_table, metric, cells, ioVars>>

CallNormalizeString == \E key \in CallsOf("_normalize_string") : CallWrapper("_normalize_string", key)

CallEditDistance == \E key \in CallsOf("_edit_distance") : CallWrapper("_edit_distance", key)

CallCellsSimilarDefault ==
  \E key \in CallsOf("_cells_similar_default") : CallWrapper("_cells_similar_default", key)

CallRowsSimilarCached ==
  \E key \in CallsOf("rows_similar_cached") : CallWrapper("rows_similar_cached", key)

NextCache ==
  \/ CallNormalizeString
  \/ CallEditDistance
  \/ CallCellsSimilarDefault
  \/ CallRowsSimilarCached

SpecCache == InitCache /\ [][NextCache]_vars

----------------------------------------------------------------------------
(* The Table Reader, applied to one file of each shape it accepts: a CSV   *)
(* file, and a JSON file holding columns and rows, tuples, data, a list of *)
(* mappings or a list of lists, at the top level or under "result_set".    *)

(* the rows of a file *)
MaxFileRows == 2

(* positional rows of zero to three cells *)
ListRows ==
  <<JList(<<>>),
    JList(<<JStr(ca)>>),
    JList(<<JStr(ca), JNum(c1)>>),
    JList(<<JStr(ca), JNum(c1), JNull>>)>>

(* mapping rows over the keys x and y *)
DictRows ==
  <<JDict(<<>>),
    JDict([x |-> JStr(ca)]),
    JDict([x |-> JStr(ca), y |-> JNum(c1)]),
    JDict([y |-> JNull])>>

(* the "columns" lists *)
ColumnLists == <<JList(<<>>), JList(<<JStr(cx)>>), JList(<<JStr(cx), JStr(<<"y">>)>>)>>

(* csv.reader rows: a header or a data row *)
CsvHeaders == <<<<>>, <<cx>>, <<<<" ", "x">>, <<"y">>>>>>

CsvRows == <<<<>>, <<ca>>, <<ca, c1>>, <<ca, c1, cx>>>>

FileShapes ==
  {"csv", "csv_empty", "columns_rows", "tuples", "data_dicts", "data_lists",
   "list_dicts", "list_lists", "scalar"}

(* the rows a file of the shape is made of *)
RowPoolOf(shape) ==
  IF shape = "csv" THEN CsvRows
  ELSE IF shape \in {"columns_rows", "tuples"} THEN ListRows \o DictRows
  ELSE IF shape \in {"data_dicts", "list_dicts"} THEN DictRows
  ELSE ListRows

HeadPoolOf(shape) ==
  IF shape = "csv" THEN CsvHeaders
  ELSE IF shape = "columns_rows" THEN ColumnLists
  ELSE <<JNull>>

(* the JSON value of the shape, on the head and the rows chosen *)
JsonOf(shape, head, rows) ==
  IF shape = "columns_rows" THEN JDict([columns |-> head, rows |-> JList(rows)])
  ELSE IF shape = "tuples" THEN JDict([tuples |-> JList(rows)])
  ELSE IF shape \in {"data_dicts", "data_lists"} THEN JDict([data |-> JList(rows)])
  ELSE IF shape = "scalar" THEN JStr(cx)
  ELSE JList(rows)

FileOf(shape, wrapped, head, rows) ==
  IF shape = "csv" THEN CsvFile(<<head>> \o rows)
  ELSE IF shape = "csv_empty" THEN CsvFile(<<>>)
  ELSE IF wrapped THEN JsonFile(JDict([result_set |-> JsonOf(shape, head, rows)]))
  ELSE JsonFile(JsonOf(shape, head, rows))

Unread(shape, file) == [shape |-> shape, file |-> file, table |-> <<>>, done |-> FALSE]

ReaderOn(shape, wrapped, head, pool, ix) ==
  Unread(shape, FileOf(shape, wrapped, head, [i \in DOMAIN ix |-> pool[ix[i]]]))

InitReader ==
  /\ args = [cell_metric |-> "exact", tuple_metric |-> "constraint", overall |-> FALSE]
  /\ sub_dsets = {}
  /\ RunIdle
  /\ gt_table = <<>>
  /\ pr_table = <<>>
  /\ metric = NoMetric
  /\ cells = [a |-> <<>>, b |-> <<>>, fn |-> "none", value |-> FALSE]
  /\ lru = [fn |-> "none", entries |-> <<>>, returned |-> <<>>, hits |-> 0, misses |-> 0]
  /\ timing = [times |-> <<>>, jobs_queries |-> 1, completed |-> <<>>, avg_time |-> <<>>]
  /\ \E shape \in FileShapes, wrapped \in BOOLEAN, n \in 0..MaxFileRows :
       \E h \in DOMAIN HeadPoolOf(shape), ix \in [1..n -> DOMAIN RowPoolOf(shape)] :
          reader = ReaderOn(shape, wrapped, HeadPoolOf(shape)[h], RowPoolOf(shape), ix)

(* read_table_file(path) returns *)
ReadTableFile ==
  /\ ~reader.done
  /\ reader' = [reader EXCEPT !.table = read_table_file(reader.file), !.done = TRUE]
  /\ UNCHANGED <<runVars, gt_table, pr_table, metric, cells, lru, timing>>

NextReader == ReadTableFile

SpecReader == InitReader /\ [][NextReader]_vars

----------------------------------------------------------------------------
(* Floats as IEEE 754 doubles, for the sums whose rounding depends on the  *)
(* order of the terms.  A positive double is [e, m]: its 53 mantissa bits  *)
(* m, the first of them 1 and worth 2^e.                                   *)

MantissaBits == 53

RECURSIVE PowerOfTwo(_)
PowerOfTwo(n) == IF n = 0 THEN 1 ELSE 2 * PowerOfTwo(n - 1)

HexDigits == <<"0", "1", "2", "3", "4", "5", "6", "7", "8", "9", "a", "b", "c", "d", "e", "f">>

HexValue(h) == (CHOOSE k \in DOMAIN HexDigits : HexDigits[k] = h) - 1

(* float.fromhex("0x1.<hex>p<e>") *)
FromHex(hex, e) ==
  [e |-> e,
   m |-> <<1>> \o [i \in 1..(4 * Len(hex)) |->
                     (HexValue(hex[(i + 3) \div 4]) \div PowerOfTwo(3 - ((i - 1) % 4))) % 2]]

(* the carry into bit i of x + y, from the bits behind it *)
RECURSIVE CarryInto(_, _, _)
CarryInto(x, y, i) ==
  IF i = Len(x) THEN 0 ELSE (x[i + 1] + y[i + 1] + CarryInto(x, y, i + 1)) \div 2

(* x + y for two bit strings of one length, one bit longer *)
AddBits(x, y) ==
  [i \in 1..(Len(x) + 1) |->
     IF i = 1 THEN CarryInto(x, y, 0) ELSE (x[i - 1] + y[i - 1] + CarryInto(x, y, i - 1)) % 2]

ZeroBits(n) == [i \in 1..n |-> 0]

(* the bits without their leading zeros, e the weight of the first bit *)
RECURSIVE Normalized(_, _)
Normalized(bits, e) ==
  IF bits # <<>> /\ Head(bits) = 0 THEN Normalized(Tail(bits), e - 1)
  ELSE [e |-> e, m |-> bits]

(* round to nearest, ties to even, on the bits dropped *)
RoundsUpBits(kept, rest) ==
  /\ rest # <<>>
  /\ rest[1] = 1
  /\ \/ \E i \in 2..Len(rest) : rest[i] = 1
     \/ kept[Len(kept)] = 1

(* kept + 1 in the last place; 1.11...1 becomes 1.00...0 of the next exponent *)
Incremented(kept, e) ==
  [e |-> Normalized(AddBits(kept, ZeroBits(Len(kept) - 1) \o <<1>>), e + 1).e,
   m |-> SubSeq(Normalized(AddBits(kept, ZeroBits(Len(kept) - 1) \o <<1>>), e + 1).m,
                1, Len(kept))]

(* the double nearest to the normalized bit string *)
RoundToDouble(x) ==
  IF Len(x.m) <= MantissaBits THEN [e |-> x.e, m |-> x.m \o ZeroBits(MantissaBits - Len(x.m))]
  ELSE IF RoundsUpBits(SubSeq(x.m, 1, MantissaBits), SubSeq(x.m, MantissaBits + 1, Len(x.m)))
    THEN Incremented(SubSeq(x.m, 1, MantissaBits), x.e)
  ELSE [e |-> x.e, m |-> SubSeq(x.m, 1, MantissaBits)]

(* hi + lo, hi.e >= lo.e *)
AddAligned(hi, lo) ==
  RoundToDouble(Normalized(AddBits(hi.m \o ZeroBits(hi.e - lo.e), ZeroBits(hi.e - lo.e) \o lo.m),
                           hi.e + 1))

(* x + y of two floats *)
float_add(x, y) == IF x.e >= y.e THEN AddAligned(x, y) ELSE AddAligned(y, x)

(* the remainder of the first i bits divided by n *)
RECURSIVE Remainder(_, _, _)
Remainder(bits, n, i) ==
  IF i = 0 THEN 0 ELSE (2 * Remainder(bits, n, i - 1) + bits[i]) % n

(* the quotient bits, and behind them a 1 when the division left a rest *)
Quotient(bits, n) ==
  [i \in DOMAIN bits |-> (2 * Remainder(bits, n, i - 1) + bits[i]) \div n]
    \o <<IF Remainder(bits, n, Len(bits)) = 0 THEN 0 ELSE 1>>

(* x / n of a float and an int *)
float_div(x, n) ==
  RoundToDouble(Normalized(Quotient(x.m \o ZeroBits(n + 1), n), x.e))

(* sum(values) of a non-empty list of floats: 0 + v1 + v2 + ... *)
RECURSIVE float_sum(_)
float_sum(values) ==
  IF Len(values) = 1 THEN values[1]
  ELSE float_add(float_sum(SubSeq(values, 1, Len(values) - 1)), values[Len(values)])

----------------------------------------------------------------------------
(* The time of a dataset: _eval_dataset_once collects the results of its   *)
(* queries, in task order when --jobs-queries is 1 and in the order the    *)
(* workers complete otherwise, and divides the sum of their times by their *)
(* number.                                                                 *)

(* the queries of the dataset *)
TimedQueries == 3

(* 0.1, 0.2, 0.3, 0.7 and 1.5 *)
TimePool ==
  {FromHex(<<"9", "9", "9", "9", "9", "9", "9", "9", "9", "9", "9", "9", "a">>, -4),
   FromHex(<<"9", "9", "9", "9", "9", "9", "9", "9", "9", "9", "9", "9", "a">>, -3),
   FromHex(<<"3", "3", "3", "3", "3", "3", "3", "3", "3", "3", "3", "3", "3">>, -2),
   FromHex(<<"6", "6", "6", "6", "6", "6", "6", "6", "6", "6", "6", "6", "6">>, -1),
   FromHex(<<"8", "0", "0", "0", "0", "0", "0", "0", "0", "0", "0", "0", "0">>, 0)}

InitTiming ==
  /\ args = [cell_metric |-> "exact", tuple_metric |-> "constraint", overall |-> FALSE]
  /\ sub_dsets = {}
  /\ RunIdle
  /\ gt_table = <<>>
  /\ pr_table = <<>>
  /\ metric = NoMetric
  /\ cells = [a |-> <<>>, b |-> <<>>, fn |-> "none", value |-> FALSE]
  /\ lru = [fn |-> "none", entries |-> <<>>, returned |-> <<>>, hits |-> 0, misses |-> 0]
  /\ reader = [shape |-> "none", file |-> <<>>, table |-> <<>>, done |-> FALSE]
  /\ \E n \in 2..TimedQueries, jobs_queries \in 1..2 :
       timing \in [times : [1..n -> TimePool], jobs_queries : {jobs_queries},
                   completed : {<<>>}, avg_time : {<<>>}]

(* results.append(...) of the next query: the next task of the loop, or   *)
(* any query still running when the futures are taken as_completed        *)
QueryCompletes(q) ==
  /\ timing.avg_time = <<>>
  /\ \A i \in DOMAIN timing.completed : timing.completed[i] # q
  /\ timing.jobs_queries = 1 => q = Len(timing.completed) + 1
  /\ timing' = [timing EXCEPT !.completed = Append(@, q)]
  /\ UNCHANGED <<runVars, gt_table, pr_table, metric, cells, lru, reader>>

(* time_list, in the order of results *)
TimeList(times, completed) == [i \in DOMAIN completed |-> times[completed[i]]]

(* d_avg_time = sum(time_list) / len(time_list) *)
d_avg_time(time_list) == float_div(float_sum(time_list), Len(time_list))

DatasetAverage ==
  /\ timing.avg_time = <<>>
  /\ Len(timing.completed) = Len(timing.times)
  /\ timing' = [timing EXCEPT
                  !.avg_time = <<d_avg_time(TimeList(timing.times, timing.completed))>>]
  /\ UNCHANGED <<runVars, gt_table, pr_table, metric, cells, lru, reader>>

NextTiming ==
  \/ \E q \in 1..TimedQueries : q \in DOMAIN timing.times /\ QueryCompletes(q)
  \/ DatasetAverage

SpecTiming == InitTiming /\ [][NextTiming]_vars

----------------------------------------------------------------------------
(* read_submission_file, applied to a CSV file, a JSON table and a full    *)
(* envelope, the JSON files with each value of "tokens" and "time".        *)

(* the values of "tokens" and "time"; the first stands for a missing key *)
MetaValues ==
  <<Absent, JNull, JNum(<<"5">>), JNum(<<"2", ".", "5">>), JStr(<<"1", "2">>),
    JStr(<<" ", "1", ".", "5", " ">>), JStr(<<>>), JStr(<<"a", "b", "c">>),
    JBool(TRUE), JBool(FALSE), JHugeInt, JList(<<>>)>>

SubmissionShapes == {"csv", "table", "envelope"}

(* the keys of the JSON object: the table's, and the metadata present *)
MetaKeys(shape, tok, tim) ==
  (IF shape = "envelope" THEN {"result_set"} ELSE {"columns", "rows"})
    \cup (IF tok = 1 THEN {} ELSE {"tokens"}) \cup (IF tim = 1 THEN {} ELSE {"time"})

MetaObject(shape, tok, tim) ==
  JDict([k \in MetaKeys(shape, tok, tim) |->
           IF k = "tokens" THEN MetaValues[tok]
           ELSE IF k = "time" THEN MetaValues[tim]
           ELSE IF k = "columns" THEN JList(<<JStr(cx)>>)
           ELSE JList(<<JList(<<JStr(ca)>>)>>)])

SubmissionOf(shape, tok, tim) ==
  IF shape = "csv" THEN CsvFile(<<<<cx>>, <<ca>>>>)
  ELSE JsonFile(MetaObject(shape, tok, tim))

InitSubmission ==
  /\ args = [cell_metric |-> "exact", tuple_metric |-> "constraint", overall |-> FALSE]
  /\ sub_dsets = {}
  /\ RunIdle
  /\ gt_table = <<>>
  /\ pr_table = <<>>
  /\ metric = NoMetric
  /\ cells = [a |-> <<>>, b |-> <<>>, fn |-> "none", value |-> FALSE]
  /\ lru = [fn |-> "none", entries |-> <<>>, returned |-> <<>>, hits |-> 0, misses |-> 0]
  /\ timing = [times |-> <<>>, jobs_queries |-> 1, completed |-> <<>>, avg_time |-> <<>>]
  /\ \E shape \in SubmissionShapes, tok \in DOMAIN MetaValues, tim \in DOMAIN MetaValues :
       reader = [shape |-> shape, file |-> SubmissionOf(shape, tok, tim),
                 table |-> <<>>, done |-> FALSE]

(* read_submission_file(path) returns or raises *)
ReadSubmissionFile ==
  /\ ~reader.done
  /\ reader' = [reader EXCEPT !.table = read_submission_file(reader.file), !.done = TRUE]
  /\ UNCHANGED <<runVars, gt_table, pr_table, metric, cells, lru, timing>>

NextSubmission == ReadSubmissionFile

SpecSubmission == InitSubmission /\ [][NextSubmission]_vars

----------------------------------------------------------------------------
(* Properties of the run (Spec).                                           *)

Last(seq) == seq[Len(seq)]

(* a dataset worker has returned: Last(results) is the scorecard of cur,   *)
(* qresults the query results it was computed from                         *)
WorkerReturned == wstate = "returned" /\ results # <<>>

(* the query results whose field is blank *)
Blank(qres, field) == {i \in DOMAIN qres : ~qres[i][field].some}

(* the sum of a field over the query results *)
FieldSum(qres, field) == RatSum([i \in DOMAIN qres |-> qres[i][field].val])

(* C1: a dataset with at least one query reports #Tokens blank exactly     *)
(* when some query lacks a token count and otherwise the sum of the        *)
(* queries' counts, and Avg-Time blank exactly when some query lacks a     *)
(* time and otherwise the mean of the queries' times, each field decided   *)
(* on its own; a dataset with no query reports every metric 0 and both     *)
(* fields blank.                                                           *)
C1_StrictBlanking ==
  (WorkerReturned /\ cur \in sub_dsets) =>
     IF Len(qresults) = 0
       THEN /\ Last(results).m = ZeroMetrics
            /\ ~Last(results).d_tokens.some
            /\ ~Last(results).d_avg_time.some
       ELSE /\ ~Last(results).d_tokens.some <=> Blank(qresults, "tokens") # {}
            /\ Last(results).d_tokens.some =>
                 Last(results).d_tokens.val = FieldSum(qresults, "tokens")
            /\ ~Last(results).d_avg_time.some <=> Blank(qresults, "time") # {}
            /\ Last(results).d_avg_time.some =>
                 Last(results).d_avg_time.val =
                   RatDivInt(FieldSum(qresults, "time"), Len(qresults))

(* two queries both with a time, one of them without tokens: tokens blank, *)
(* time the mean of 2 and 4                                                *)
C1_Witness ==
  /\ WorkerReturned /\ cur \in sub_dsets
  /\ Len(qresults) = 2
  /\ Cardinality(Blank(qresults, "tokens")) = 1
  /\ ~Last(results).d_tokens.some
  /\ Last(results).d_avg_time = Some(<<3, 1>>)

(* the run has printed the ALL row *)
OverallDone == pc = "done" /\ args.overall

(* the number of queries of all dataset scorecards *)
TotalQueries(rs) == RatSum([k \in DOMAIN rs |-> <<rs[k].m.n, 1>>])[1]

(* the sum over the scorecards of value times number of queries *)
WeightedSum(rs, value(_)) ==
  RatSum([k \in DOMAIN rs |-> RatMul(value(rs[k]), <<rs[k].m.n, 1>>)])

(* C2: the ALL row's #Tokens is blank whenever at least one dataset's      *)
(* #Tokens is blank, and when no dataset's is blank it is the sum of the   *)
(* datasets' sums.                                                         *)
C2_AllTokens ==
  OverallDone =>
     IF \E k \in DOMAIN results : ~results[k].d_tokens.some
       THEN ~out[1].tokens.some
       ELSE out[1].tokens =
              Some(RatSum([k \in DOMAIN results |-> results[k].d_tokens.val]))

(* one dataset with tokens on every query, the other with queries but no   *)
(* full token count                                                        *)
C2_Witness ==
  /\ OverallDone
  /\ \E k \in DOMAIN results : results[k].d_tokens.some
  /\ \E k \in DOMAIN results : results[k].m.n > 0 /\ ~results[k].d_tokens.some
  /\ ~out[1].tokens.some

(* C3, as stated: the ALL row's Avg-Time is blank only when a dataset that *)
(* has at least one query reports a blank time, and otherwise is the sum   *)
(* of avg_time_d * n_d over the sum of n_d.                                *)
C3_TimeOverDatasetsWithQueries ==
  (OverallDone /\ TotalQueries(results) > 0) =>
     IF \E k \in DOMAIN results : results[k].m.n >= 1 /\ ~results[k].d_avg_time.some
       THEN ~out[1].time.some
       ELSE out[1].time =
              Some(RatDivInt(WeightedSum(results, LAMBDA r : r.d_avg_time.val),
                             TotalQueries(results)))

(* C3, amended: the ALL row's Avg-Time is blank exactly when at least one  *)
(* dataset reports a blank time, which every dataset without queries does, *)
(* and otherwise is the sum of avg_time_d * n_d over the sum of n_d.       *)
C3_AllTime ==
  OverallDone =>
     IF \E k \in DOMAIN results : ~results[k].d_avg_time.some
       THEN ~out[1].time.some
       ELSE out[1].time =
              Some(RatDivInt(WeightedSum(results, LAMBDA r : r.d_avg_time.val),
                             TotalQueries(results)))

(* a dataset without queries beside one whose queries all report a time *)
C3_Witness ==
  /\ OverallDone
  /\ \E k \in DOMAIN results : results[k].m.n = 0
  /\ \E k \in DOMAIN results : results[k].m.n >= 1 /\ results[k].d_avg_time.some
  /\ \A k \in DOMAIN results : results[k].m.n >= 1 => results[k].d_avg_time.some
  /\ ~out[1].time.some

(* C4: each metric of the ALL row is the mean of the datasets' metrics     *)
(* weighted by their numbers of queries, which is the mean over all the    *)
(* queries of the run; #Queries is the sum of the datasets' numbers; with  *)
(* no query at all every metric is 0.                                      *)
C4_WeightedMean ==
  OverallDone =>
     /\ out[1].n = TotalQueries(results)
     /\ pooled.n = TotalQueries(results)
     /\ IF TotalQueries(results) = 0
          THEN \A f \in {"F1", "Card", "TCon", "AVG"} : out[1][f] = Zero
          ELSE \A f \in {"F1", "Card", "TCon", "AVG"} :
                 /\ out[1][f] = RatDivInt(WeightedSum(results, LAMBDA r : r.m[f]),
                                          TotalQueries(results))
                 /\ out[1][f] = RatDivInt(pooled[f], pooled.n)

(* two datasets of different sizes and different means *)
C4_Witness ==
  /\ OverallDone
  /\ Len(results) = 2
  /\ results[1].m.n = 1 /\ results[2].m.n = 2
  /\ results[1].m.F1 = One /\ results[2].m.F1 = Zero
  /\ out[1].F1 = <<1, 3>>

(* the query stems of a ground-truth directory: one per stem that has a    *)
(* file with the extension .csv or .json                                   *)
QueryStems(listing) == {f[1] : f \in {g \in listing : g[2] = ".csv" \/ g[2] = ".json"}}

(* the scorecard counts every ground-truth query, and its metrics are the  *)
(* means of the per-query scores, each query's score the mean of its three *)
(* metrics                                                                 *)
CountsEveryQuery ==
  /\ Last(results).m.n = Cardinality(QueryStems(gt_listing))
  /\ Cardinality(QueryStems(gt_listing)) > 0 =>
       /\ Len(qresults) = Cardinality(QueryStems(gt_listing))
       /\ \A i \in DOMAIN qresults :
            qresults[i].avg =
              RatDivInt(RatAdd(RatAdd(qresults[i].f1, qresults[i].card), qresults[i].tcon), 3)
       /\ Last(results).m.F1 = RatDivInt(RatSum(Column(qresults, "f1")), Len(qresults))
       /\ Last(results).m.Card = RatDivInt(RatSum(Column(qresults, "card")), Len(qresults))
       /\ Last(results).m.TCon = RatDivInt(RatSum(Column(qresults, "tcon")), Len(qresults))
       /\ Last(results).m.AVG = RatDivInt(RatSum(Column(qresults, "avg")), Len(qresults))

(* C5, as stated: every ground-truth query of a dataset is scored and      *)
(* counted in #Queries, whatever the submission holds.                     *)
C5_EveryQueryCounted == WorkerReturned => CountsEveryQuery

(* C5, amended: every ground-truth query of a dataset that has a directory *)
(* under the submissions root is scored and counted in #Queries, a query   *)
(* without a submission file included; a query's score is the mean of its  *)
(* three metrics and a dataset metric is the mean over all these queries.  *)
C5_EveryQueryOfSubmittedDataset ==
  (WorkerReturned /\ cur \in sub_dsets) => CountsEveryQuery

(* two queries, the first without a submission file, the second answered   *)
(* exactly                                                                 *)
C5_Witness ==
  /\ WorkerReturned /\ cur \in sub_dsets
  /\ Len(qresults) = 2
  /\ qresults[1] = QueryScore[1, args.cell_metric, args.tuple_metric]
  /\ qresults[2].avg = One
  /\ Last(results).m.n = 2
  /\ Last(results).m.AVG = <<1, 2>>

(* the result of the query of input i when its submission holds no file *)
ScoredAsEmpty(i, cell_mode, tuple_mode) ==
  eval_query_once(QueryInputs[i].gt, [csv |-> Absent, json |-> Absent],
                  QueryInputs[i].gt_sfx, cell_mode, tuple_mode)

(* C7: a query whose submission file is corrupt JSON is scored as if its   *)
(* predicted table were empty and the run goes on.                         *)
C7_QueryErrorCaught ==
  (task_in \in DOMAIN QueryInputs /\ QueryInputs[task_in].sub.json = JsonFile(Corrupt)
     /\ QueryInputs[task_in].sub.csv = Absent) =>
     /\ pc # "aborted"
     /\ qresults # <<>>
     /\ Last(qresults) = ScoredAsEmpty(task_in, args.cell_metric, args.tuple_metric)

(* C8: a dataset without a directory under the submissions root is         *)
(* reported with every metric 0 and blank tokens and time; the run never   *)
(* fails on it, and when the run ends every dataset has its row, the       *)
(* datasets that have a directory with the scores of their queries.        *)
C8_MissingDatasetDirectory ==
  /\ \A k \in DOMAIN results :
       results[k].dname \notin sub_dsets =>
         /\ results[k].m = ZeroMetrics
         /\ results[k].d_tokens = None
         /\ results[k].d_avg_time = None
  /\ pc = "aborted" => (cur \in sub_dsets /\ wstate = "running")
  /\ (pc = "done" /\ ~args.overall) =>
       /\ {out[k].name : k \in DOMAIN out} = Datasets
       /\ \A k \in DOMAIN out :
            out[k].name \notin sub_dsets =>
              /\ \A f \in {"F1", "Card", "TCon", "AVG"} : out[k][f] = Zero
              /\ out[k].tokens = None /\ out[k].time = None

(* dataset B has no directory, dataset A is scored on its query *)
C8_Witness ==
  /\ pc = "done" /\ ~args.overall
  /\ sub_dsets = {"A"}
  /\ out[1].name = "A" /\ out[1].n = 1 /\ out[1].AVG = One
  /\ out[2].name = "B" /\ out[2].AVG = Zero
  /\ out[2].tokens = None /\ out[2].time = None

----------------------------------------------------------------------------
(* Properties of the metrics (SpecMetrics).                                *)

(* some row of the table has a cell *)
HasCell(table) == \E i \in DOMAIN table : Len(table[i]) > 0

ZeroScore ==
  [raised |-> FALSE, f1 |-> Zero, card |-> Zero, tcon |-> Zero, avg |-> Zero,
   tokens |-> None, time |-> None]

(* C6, as stated: a query without a submission file is scored zero on      *)
(* every metric, with no tokens and no time, whatever its ground truth.    *)
C6_MissingScoresZero ==
  metric.name = "missing_submission" => metric.value = ZeroScore

(* C6, amended: a query without a submission file is read without error    *)
(* as an empty table with no tokens and no time, and is scored zero on     *)
(* every metric, for every ground-truth table that holds at least one      *)
(* cell.                                                                   *)
C6_MissingScoresZeroOnCells ==
  (metric.name = "missing_submission" /\ HasCell(gt_table)) => metric.value = ZeroScore

(* a ground truth of two rows without a submission *)
C6_Witness ==
  /\ metric.name = "missing_submission"
  /\ gt_table = <<<<c10>>, <<c9>>>>
  /\ metric.value = ZeroScore

(* a row with every cell normalized *)
NormRow(row) == [j \in DOMAIN row |-> norm(row[j])]

(* how many rows of the table normalize to the row *)
Multiplicity(table, row) == Cardinality({i \in DOMAIN table : NormRow(table[i]) = row})

DistinctRows(table) == {NormRow(table[i]) : i \in DOMAIN table}

(* matched over distinct expected rows, 1 for two empty tables *)
ScoreOf(matched, gt, pr) ==
  IF DistinctRows(gt) = {} /\ DistinctRows(pr) = {} THEN One
  ELSE IF DistinctRows(gt) = {} THEN Zero
  ELSE Rat(Cardinality(matched), Cardinality(DistinctRows(gt)))

(* the distinct expected rows that the prediction holds equally often *)
ExactMatched(gt, pr) ==
  {e \in DistinctRows(gt) : Multiplicity(pr, e) = Multiplicity(gt, e)}

(* C9: the exact tuple constraint counts a distinct normalized expected    *)
(* row as matched exactly when the prediction holds it with the same       *)
(* multiplicity; the score is matched over distinct expected rows, 1 when  *)
(* both tables are empty and 0 when only the expected one is.              *)
C9_ExactTupleConstraint ==
  metric.name = "tuple_constraint" =>
     metric.value = ScoreOf(ExactMatched(gt_table, pr_table), gt_table, pr_table)

(* the expected row twice, under two spellings, and predicted once *)
C9_Witness ==
  /\ metric.name = "tuple_constraint"
  /\ gt_table = <<<<ca, c1>>, <<cA, c1>>>>
  /\ pr_table = <<<<ca, c1>>>>
  /\ metric.value = Zero

(* same length and every position pairwise similar *)
RowsSimilar(e, p) ==
  Len(e) = Len(p) /\ \A j \in DOMAIN e : cells_similar_default(e[j], p[j])

(* exhaustive search: some predicted row of the same multiplicity is       *)
(* similar to the expected row                                             *)
ExhaustiveMatched(gt, pr) ==
  {e \in DistinctRows(gt) :
     \E p \in DistinctRows(pr) :
        Multiplicity(pr, p) = Multiplicity(gt, e) /\ RowsSimilar(e, p)}

(* C10: the fuzzy tuple constraint gives the score of the exhaustive       *)
(* search over the pairs of an expected and a predicted row.               *)
C10_BucketingIsExhaustive ==
  metric.name = "tuple_similarity_constraint" =>
     metric.value = ScoreOf(ExhaustiveMatched(gt_table, pr_table), gt_table, pr_table)

----------------------------------------------------------------------------
(* Properties of the cell and row-count metrics (SpecCellMetrics).         *)

(* the normalized values of the cells of a table *)
CellValues(table) ==
  UNION {{NormRow(table[i])[j] : j \in DOMAIN table[i]} : i \in DOMAIN table}

(* exactly one of the two holds *)
ExactlyOne(x, y) == (x /\ ~y) \/ (~x /\ y)

(* C11, as stated: exact cell F1 is 1 exactly when the two normalized      *)
(* cell-value sets are identical, and 0 whenever exactly one of the two    *)
(* tables is empty, a table being empty when it has no row.                *)
C11_ZeroWhenOneTableEmpty ==
  metric.name = "f1_cell_exact" =>
     /\ metric.value = One <=> CellValues(gt_table) = CellValues(pr_table)
     /\ ExactlyOne(gt_table = <<>>, pr_table = <<>>) => metric.value = Zero

(* C11, amended: exact cell F1 is 1 exactly when the two normalized        *)
(* cell-value sets are identical, and 0 whenever exactly one of the two    *)
(* cell-value sets is empty.                                               *)
C11_ZeroWhenOneCellSetEmpty ==
  metric.name = "f1_cell_exact" =>
     /\ metric.value = One <=> CellValues(gt_table) = CellValues(pr_table)
     /\ ExactlyOne(CellValues(gt_table) = {}, CellValues(pr_table) = {}) =>
          metric.value = Zero

(* an empty table against rows that hold no cell: both cell sets empty *)
C11_Witness ==
  /\ metric.name = "f1_cell_exact"
  /\ gt_table = <<>>
  /\ pr_table = <<<<>>>>
  /\ metric.value = One

(* C14: cardinality gives the same value with its arguments exchanged; it  *)
(* is 1 for two empty row lists, 0 when exactly one is empty, and the      *)
(* smaller row count over the greater otherwise.                           *)
C14_CardinalitySymmetric ==
  metric.name = "cardinality" =>
     /\ metric.value.forward = metric.value.backward
     /\ metric.value.forward =
          IF Len(gt_table) = 0 /\ Len(pr_table) = 0 THEN One
          ELSE IF Len(gt_table) = 0 \/ Len(pr_table) = 0 THEN Zero
          ELSE IF Len(gt_table) <= Len(pr_table)
                 THEN Rat(Len(gt_table), Len(pr_table))
                 ELSE Rat(Len(pr_table), Len(gt_table))

(* one expected row against three predicted rows *)
C14_Witness ==
  /\ metric.name = "cardinality"
  /\ Len(gt_table) = 1 /\ Len(pr_table) = 3
  /\ metric.value.forward = <<1, 3>>
  /\ metric.value.backward = <<1, 3>>

----------------------------------------------------------------------------
(* Properties of the cell functions (SpecCells).                           *)

(* the number a cell is read as, with the comma as a decimal point *)
NumberOf(cell) == float(ReplaceChar(cell, ",", "."))

IsNumber(cell) == NumberOf(cell).kind = "num"

(* |b| <= 0.1 for an expected value of zero, else |a - b| / |a| <= 0.1 *)
WithinTenth(x, y) ==
  IF x[1] = 0 THEN 10 * Abs(y[1]) <= y[2]
  ELSE 10 * Abs(x[1] * y[2] - y[1] * x[2]) <= Abs(x[1]) * y[2]

(* C12: on two cells that are read as numbers, cells_similar of both       *)
(* evaluator files is true exactly when the predicted number is within     *)
(* 0.1 of an expected zero, or within a tenth of a non-zero expected       *)
(* number.                                                                 *)
C12_NumericBranch ==
  (cells.fn = "cells_similar" /\ IsNumber(cells.a) /\ IsNumber(cells.b)) =>
     /\ cells.value.optimized = WithinTenth(NumberOf(cells.a).val, NumberOf(cells.b).val)
     /\ cells.value.original = WithinTenth(NumberOf(cells.a).val, NumberOf(cells.b).val)

(* float() accepts the cell *)
Parses(cell) == NumberOf(cell).kind # "error"

(* b is reached from a by at most k insertions, deletions or substitutions *)
RECURSIVE WithinEdits(_, _, _)
WithinEdits(a, b, k) ==
  IF k < 0 THEN FALSE
  ELSE IF a = <<>> THEN Len(b) <= k
  ELSE IF b = <<>> THEN Len(a) <= k
  ELSE IF Head(a) = Head(b) THEN WithinEdits(Tail(a), Tail(b), k)
  ELSE \/ WithinEdits(Tail(a), Tail(b), k - 1)
       \/ WithinEdits(Tail(a), b, k - 1)
       \/ WithinEdits(a, Tail(b), k - 1)

(* C13: on two cells that float() does not both accept, cells_similar of   *)
(* both evaluator files is true exactly when the Levenshtein distance is   *)
(* at most floor(len(a) / 10); the length pre-check and the bounded        *)
(* distance test of the optimized file change nothing.                     *)
C13_StringBranch ==
  (cells.fn = "cells_similar" /\ ~(Parses(cells.a) /\ Parses(cells.b))) =>
     /\ cells.value.optimized = WithinEdits(cells.a, cells.b, Len(cells.a) \div 10)
     /\ cells.value.original = cells.value.optimized

(* a word of ten letters and the word with one more letter *)
C13_Witness ==
  /\ cells.fn = "cells_similar"
  /\ Len(cells.a) = 10 /\ Len(cells.b) = 11
  /\ ~Parses(cells.a)
  /\ cells.value = [optimized |-> TRUE, original |-> TRUE]

(* the cell reaches the last branch of _normalize_string: no magnitude    *)
(* pattern is found in it and the numeric pattern does not match it       *)
OnStringBranch(cell) ==
  /\ ~Search(RemoveChar(cell, ","), million).found
  /\ ~Search(RemoveChar(cell, ","), billion).found
  /\ ~Search(RemoveChar(cell, ","), thousand).found
  /\ ~numeric(Strip(RemoveChar(cell, ",")))

(* C16: on a cell that reaches the string branch (newlines removed,       *)
(* trimmed, lowercased), normalizing the normalized cell changes nothing. *)
C16_StringBranchIdempotent ==
  (cells.fn = "normalize_string" /\ OnStringBranch(cells.a)) =>
     cells.value.twice = cells.value.once

(* the power of ten a magnitude word stands for *)
PowerOf(word) ==
  IF Lower(word) \in million THEN 6
  ELSE IF Lower(word) \in billion THEN 9
  ELSE 3

(* the digits of the decimal number before and after its point *)
IntDigits(number) ==
  SubSeq(number, 1, DigitRunEnd(number, 1) - 1)

FracDigits(number) ==
  SubSeq(number, DigitRunEnd(number, 1) + 1, Len(number))

(* the fraction digits, with zeros appended up to k digits *)
Shifted(number, k) ==
  IF Len(FracDigits(number)) >= k THEN FracDigits(number)
  ELSE FracDigits(number) \o [i \in 1..(k - Len(FracDigits(number))) |-> "0"]

(* the digits of number * 10^k before the point, and the digits after it *)
WholeOf(number, k) == IntDigits(number) \o SubSeq(Shifted(number, k), 1, k)

RestOf(number, k) == SubSeq(Shifted(number, k), k + 1, Len(Shifted(number, k)))

(* 1 when 0.rest rounds up next to the integer `whole`, half to even *)
RoundUnit(whole, rest) ==
  IF 2 * DigitsValue(rest) > Pow10(Len(rest)) THEN 1
  ELSE IF 2 * DigitsValue(rest) = Pow10(Len(rest)) THEN DigitsValue(whole) % 2
  ELSE 0

(* str is the decimal integer nearest to number * 10^k, with no sign, *)
(* point or leading zero                                             *)
IsIntegerFormOf(str, number, k) ==
  /\ str # <<>>
  /\ \A i \in DOMAIN str : IsDigit(str[i])
  /\ Len(str) > 1 => str[1] # "0"
  /\ IF \A i \in DOMAIN RestOf(number, k) : RestOf(number, k)[i] = "0"
       THEN str = StripZeros(WholeOf(number, k))
     ELSE DigitsValue(str) = DigitsValue(WholeOf(number, k))
                               + RoundUnit(WholeOf(number, k), RestOf(number, k))

(* C17: a cell made of a decimal number, optional space and a magnitude   *)
(* word normalizes to the integer form of number * 10^6, 10^9 or 10^3,    *)
(* and that string normalizes to itself.                                  *)
C17_MagnitudeIsPlainInteger ==
  cells.fn = "normalize_string" =>
    \A number \in MagnitudeNumbers, sp \in MagnitudeSpaces, word \in MagnitudeWords :
       cells.a = number \o sp \o word =>
          /\ IsIntegerFormOf(cells.value.once, number, PowerOf(word))
          /\ cells.value.twice = cells.value.once

(* "2.5 million" normalized to "2500000" *)
C17_Witness ==
  /\ cells.fn = "normalize_string"
  /\ cells.a = <<"2", ".", "5", " ", "m", "i", "l", "l", "i", "o", "n">>
  /\ cells.value.once = <<"2", "5", "0", "0", "0", "0", "0">>
  /\ cells.value.twice = cells.value.once

----------------------------------------------------------------------------
(* Properties of the metrics under row reordering (SpecReordered).         *)

(* C15: cell F1 (exact and fuzzy), cardinality and both tuple constraints  *)
(* return, on a table whose rows were permuted, the values they return on  *)
(* the table itself.                                                       *)
C15_RowOrderIrrelevant ==
  metric.name = "reordered" => metric.value.scores = AllMetrics(gt_table, pr_table)

(* expected rows [10], [9] scored against the submission [9], [10], *)
(* reached by reversing either table                                *)
C15_Witness ==
  /\ metric.name = "reordered"
  /\ Len(metric.value.gt) = 2
  /\ metric.value.gt[1] # metric.value.gt[2]
  /\ metric.value.pr = <<metric.value.gt[2], metric.value.gt[1]>>
  /\ <<metric.value.gt, metric.value.pr>> # <<gt_table, pr_table>>
  /\ metric.value.scores.f1_exact = One
  /\ metric.value.scores.card = One
  /\ metric.value.scores.tcon = One

----------------------------------------------------------------------------
(* Properties of the memoized functions (SpecCache).                       *)

(* C18: whatever was called before, and whatever was evicted, the cached   *)
(* function returns the value of the function it wraps, and every entry of *)
(* the cache holds the value of the function on its key.                   *)
C18_MemoizationIsTransparent ==
  /\ \A i \in DOMAIN lru.entries :
        lru.entries[i].value = Uncached(lru.fn, lru.entries[i].key)
  /\ lru.returned # <<>> => lru.returned[2] = Uncached(lru.fn, lru.returned[1])
  /\ Len(lru.entries) <= CacheSize
  /\ \A i, j \in DOMAIN lru.entries : lru.entries[i].key = lru.entries[j].key => i = j

(* four calls, one of them a hit, on a cache that evicted an entry and    *)
(* whose two entries hold different values                                 *)
C18_Witness ==
  /\ lru.fn = "_cells_similar_default"
  /\ Len(lru.entries) = CacheSize
  /\ lru.misses > CacheSize
  /\ lru.hits = 1
  /\ lru.hits + lru.misses = MaxCalls
  /\ lru.returned = <<<<c10, c9>>, TRUE>>
  /\ lru.entries[CacheSize].key = <<c10, c9>>
  /\ lru.entries[1] = [key |-> <<c10, cx>>, value |-> FALSE]

----------------------------------------------------------------------------
(* Properties of the Table Reader (SpecReader).                            *)

(* the positional row cut to the width when longer, padded with empty      *)
(* strings when shorter                                                    *)
FitTo(row, width) ==
  [j \in 1..width |-> IF j <= Len(row) THEN row[j] ELSE <<>>]

(* C20: every row of the table read_table_file returns has as many cells   *)
(* as the table has columns; a CSV data row and a positional row under     *)
(* "columns" are cut to that width or padded to it with empty strings.     *)
C20_FixedRowWidth ==
  reader.done =>
    /\ \A i \in DOMAIN reader.table.rows :
          Len(reader.table.rows[i]) = Len(reader.table.cols)
    /\ reader.shape = "csv" =>
          /\ Len(reader.table.rows) = Len(reader.file.body) - 1
          /\ \A i \in DOMAIN reader.table.rows :
                reader.table.rows[i] = FitTo(reader.file.body[i + 1], Len(reader.file.body[1]))

(* a CSV file with a header of two names, a row of three cells and a row  *)
(* of one, read as two rows of two cells                                   *)
C20_Witness ==
  /\ reader.done
  /\ reader.shape = "csv"
  /\ Len(reader.file.body) = 3
  /\ Len(reader.file.body[1]) = 2
  /\ Len(reader.file.body[2]) = 3
  /\ Len(reader.file.body[3]) = 1
  /\ reader.table.cols = <<"x", "y">>
  /\ reader.table.rows = <<<<ca, c1>>, <<ca, <<>>>>>>

----------------------------------------------------------------------------
(* Properties of the time of a dataset (SpecTiming).                       *)

(* the results of the sequential run: the queries in task order *)
TaskOrder(times) == [i \in DOMAIN times |-> i]

(* C19: whatever the order in which the query workers complete, the       *)
(* Avg-Time of the dataset is the Avg-Time of the sequential run.         *)
C19_AvgTimeOrderIndependent ==
  timing.avg_time # <<>> =>
     timing.avg_time[1] = d_avg_time(TimeList(timing.times, TaskOrder(timing.times)))

----------------------------------------------------------------------------
(* Further properties of the cell functions (SpecCells).                   *)

(* C29: a normalized cell is similar to itself, in both evaluator files.   *)
C29_SimilarReflexive ==
  (/\ cells.fn = "cells_similar"
   /\ cells.a = cells.b
   /\ normalize_string(cells.a) = cells.a) =>
     cells.value.optimized /\ cells.value.original

(* the positions of the cell that hold a decimal point *)
Points(str) == {i \in DOMAIN str : str[i] = "."}

(* the cell without its commas and surrounding blanks *)
Bare(cell) == Strip(RemoveChar(cell, ","))

(* optional minus, digits, and optionally a point followed by digits *)
IsPlainNumber(str) ==
  /\ str # <<>>
  /\ \A i \in DOMAIN str : IsDigit(str[i]) \/ str[i] = "." \/ (i = 1 /\ str[i] = "-")
  /\ Cardinality(Points(str)) <= 1
  /\ \A i \in Points(str) : i < Len(str) /\ i > 1 /\ IsDigit(str[i - 1])
  /\ \E i \in DOMAIN str : IsDigit(str[i])
  /\ Len(str) > 1 => IsDigit(str[2])

(* a plain number written without a point, or with two digits behind it *)
KeepsForm(once, bare) ==
  IF Points(bare) = {} THEN Points(once) = {}
  ELSE Points(once) = {Len(once) - 2} /\ IsDigit(once[Len(once)]) /\ IsDigit(once[Len(once) - 1])

----------------------------------------------------------------------------
(* Properties of read_submission_file (SpecSubmission).                    *)

(* the value of the key in the file's JSON object, JNull when missing *)
MetaOf(file, key) == IF key \in DOMAIN file.body.v THEN file.body.v[key] ELSE JNull

(* a JSON number, or a string that reads as a number once trimmed *)
IsNumberOrNumericString(j) ==
  \/ j.t \in {"num", "hugeint"}
  \/ j.t = "str" /\ Strip(j.v) # <<>> /\ float(Strip(j.v)).kind # "error"

(* the field as the claim has it: a float exactly for those values *)
PresentExactlyForNumbers(field, j) == field.some = IsNumberOrNumericString(j)

(* C21: read_submission_file never raises on the value of "tokens" or     *)
(* "time"; it returns both absent for a CSV file and for a JSON file with *)
(* no "result_set" key, and for an envelope returns each as a float when   *)
(* its value is a number or a numeric string and absent otherwise.         *)
C21_MetadataCoercion ==
  reader.done =>
    /\ ~reader.table.raised
    /\ reader.shape \in {"csv", "table"} =>
          reader.table.tokens = None /\ reader.table.time = None
    /\ reader.shape = "envelope" =>
          /\ PresentExactlyForNumbers(reader.table.tokens, MetaOf(reader.file, "tokens"))
          /\ PresentExactlyForNumbers(reader.table.time, MetaOf(reader.file, "time"))

----------------------------------------------------------------------------
(* Further properties of the run (Spec).                                   *)

(* the submission files of the query's stem: the one with the suffix of   *)
(* the ground-truth file, and the one with the other suffix                *)
OwnSuffixFile(i) ==
  IF QueryInputs[i].gt_sfx = ".csv" THEN QueryInputs[i].sub.csv ELSE QueryInputs[i].sub.json

OtherSuffixFile(i) ==
  IF QueryInputs[i].gt_sfx = ".csv" THEN QueryInputs[i].sub.json ELSE QueryInputs[i].sub.csv

(* the scores of the query when the file is the one read as its submission *)
ScoredWith(i, file) ==
  ScoreTables(read_table_file(QueryInputs[i].gt), read_submission_file(file),
              args.cell_metric, args.tuple_metric)

(* C22: a query is scored on the submission file with the suffix of its   *)
(* ground-truth file when that file exists, whether or not the other one   *)
(* exists too; on the file with the other suffix when only that one        *)
(* exists; and as a query with no submission when neither exists.          *)
C22_PairingOrder ==
  (task_in \in DOMAIN QueryInputs /\ qresults # <<>> /\ pc # "aborted") =>
     Last(qresults) =
       IF OwnSuffixFile(task_in).kind # "absent" THEN ScoredWith(task_in, OwnSuffixFile(task_in))
       ELSE IF OtherSuffixFile(task_in).kind # "absent"
         THEN ScoredWith(task_in, OtherSuffixFile(task_in))
       ELSE ScoredWith(task_in, Absent)

(* Q.csv and Q.json both exist for the ground truth Q.csv: the scores are *)
(* those of Q.csv, which differ from those of Q.json                      *)
C22_Witness ==
  /\ task_in \in DOMAIN QueryInputs
  /\ qresults # <<>>
  /\ pc # "aborted"
  /\ QueryInputs[task_in].gt_sfx = ".csv"
  /\ OwnSuffixFile(task_in).kind = "csv"
  /\ OtherSuffixFile(task_in).kind = "json"
  /\ Last(qresults) = ScoredWith(task_in, OwnSuffixFile(task_in))
  /\ Last(qresults) # ScoredWith(task_in, OtherSuffixFile(task_in))

----------------------------------------------------------------------------
(* Further properties of the tuple metrics (SpecMetrics).                  *)

(* the two tables hold the same normalized rows, each equally often *)
SameMultiset(gt, pr) ==
  \A row \in DistinctRows(gt) \cup DistinctRows(pr) :
     Multiplicity(gt, row) = Multiplicity(pr, row)

(* every distinct expected row is predicted equally often *)
ExpectedRowsCovered(gt, pr) ==
  \A row \in DistinctRows(gt) : Multiplicity(pr, row) = Multiplicity(gt, row)

----------------------------------------------------------------------------
(* Properties of the scores of one pair of tables (SpecScores)             *)

(* the predicted values that some expected value is similar to *)
CoveredPredicted(expected, predicted) ==
  {p \in predicted : \E e \in expected : cells_similar_default(e, p)}

(* the expected values that are similar to some predicted value *)
CoveringExpected(expected, predicted) ==
  {e \in expected : \E p \in predicted : cells_similar_default(e, p)}

(* value is the harmonic mean of hit_p / n_p and hit_e / n_e, 0 when both  *)
(* are 0                                                                   *)
IsHarmonicMeanOf(value, hit_p, n_p, hit_e, n_e) ==
  IF hit_p = 0 /\ hit_e = 0 THEN value = Zero
  ELSE value[1] * (hit_p * n_e + hit_e * n_p) = 2 * hit_p * hit_e * value[2]

(* C26: fuzzy cell F1 is the harmonic mean of precision, the fraction of   *)
(* the predicted values that some expected value is similar to, and of     *)
(* recall, the fraction of the expected values that are similar to some    *)
(* predicted value, the expected value being the first argument of similar *)
(* in both; it is 1 when both value sets are empty and 0 when exactly one  *)
(* is.                                                                     *)
C26_ExistentialMatching ==
  metric.name = "f1_cell_similarity" =>
     LET expected == CellValues(gt_table)
         predicted == CellValues(pr_table)
     IN  IF expected = {} /\ predicted = {} THEN metric.value = One
         ELSE IF expected = {} \/ predicted = {} THEN metric.value = Zero
         ELSE IsHarmonicMeanOf(metric.value,
                               Cardinality(CoveredPredicted(expected, predicted)),
                               Cardinality(predicted),
                               Cardinality(CoveringExpected(expected, predicted)),
                               Cardinality(expected))

(* fuzzy cell F1 was computed for one expected value that covers two       *)
(* predicted values, one of which is not similar to it the other way round *)
C26_Witness ==
  /\ metric.name = "f1_cell_similarity"
  /\ metric.value = One
  /\ Cardinality(CellValues(gt_table)) = 1
  /\ Cardinality(CellValues(pr_table)) = 2
  /\ \E e \in CellValues(gt_table), p \in CellValues(pr_table) :
        cells_similar_default(e, p) /\ ~cells_similar_default(p, e)

(* the similarity variants of the scores are no lower than the exact ones *)
SimilarityNoLower(scores) ==
  /\ RatLeq(scores.f1_exact, scores.f1_similarity)
  /\ RatLeq(scores.tcon, scores.tsim)

(* C30: for every pair of tables and in both evaluator files,              *)
(* f1_cell_similarity is at least f1_cell_exact and                        *)
(* tuple_similarity_constraint is at least tuple_constraint.               *)
C30_SimilarityAtLeastExact ==
  metric.name = "all_metrics" =>
     /\ SimilarityNoLower(metric.value.optimized)
     /\ SimilarityNoLower(metric.value.original)

(* C25: for every pair of tables, the five metrics of                      *)
(* src/src/utils/galois_eval.py have the values of the functions of the    *)
(* same name in src/galois_eval.py.                                        *)
C25_OptimizedEqualsOriginal ==
  metric.name = "all_metrics" => metric.value.optimized = metric.value.original

(* the score lies in [0, 1] *)
InUnitRange(score) == RatLeq(Zero, score) /\ RatLeq(score, One)

(* F1, Card, TCon and AVG of a dataset row or of the ALL row lie in [0, 1] *)
RowInUnitRange(row) ==
  InUnitRange(row.F1) /\ InUnitRange(row.Card) /\ InUnitRange(row.TCon) /\ InUnitRange(row.AVG)

(* C28: for every pair of tables the cell F1, cardinality and the tuple    *)
(* constraint lie in [0, 1] in their exact and in their similarity         *)
(* variants, and so do the AVG of every query and F1, Card, TCon and AVG   *)
(* of every dataset row and of the ALL row computed from them.             *)
C28_ScoresInUnitRange ==
  metric.name = "scorecards" =>
     /\ \A i \in DOMAIN metric.value.queries :
           \A name \in {"f1", "card", "tcon", "avg"} :
              InUnitRange(metric.value.queries[i][name])
     /\ \A i \in DOMAIN metric.value.datasets : RowInUnitRange(metric.value.datasets[i])
     /\ RowInUnitRange(metric.value.overall)

(* the scorecards were computed for two tables of different sizes: three   *)
(* queries were folded into two dataset rows that differ and into the ALL  *)
(* row, whose AVG lies strictly between 0 and 1, while one metric of a     *)
(* query is 1 and another is 0                                             *)
C28_Witness ==
  /\ metric.name = "scorecards"
  /\ Len(gt_table) < Len(pr_table)
  /\ metric.value.overall.n = 3
  /\ metric.value.overall.AVG \notin {Zero, One}
  /\ metric.value.datasets[2].AVG # metric.value.datasets[1].AVG
  /\ \E i \in DOMAIN metric.value.queries :
        metric.value.queries[i].f1 = One /\ metric.value.queries[i].tcon = Zero

----------------------------------------------------------------------------
(* Properties of the calls of the metric functions (SpecCalls)             *)

(* C23: computing cells_set, exact or fuzzy cell F1, cardinality, or the   *)
(* exact or fuzzy tuple constraint leaves the column list and the rows of  *)
(* the expected and of the predicted table as they were: the same rows in  *)
(* the same order with the same cell values.                               *)
C23_TablesNotMutated ==
  [][/\ gt_table' = gt_table
     /\ pr_table' = pr_table
     /\ metric'.name = "call" =>
           /\ metric'.value.gt_cols = HeaderFor(gt_table)
           /\ metric'.value.pr_cols = HeaderFor(pr_table)]_vars

(* a tuple metric has returned a score for two tables that differ and      *)
(* that both hold a cell which is not in normalized form                   *)
C23_Witness ==
  /\ metric.name = "call"
  /\ metric.value.fn \in {"tuple_constraint", "tuple_similarity_constraint"}
  /\ metric.value.ret = One
  /\ gt_table # pr_table
  /\ Len(gt_table) = 2
  /\ normalize_rows_full(gt_table) # gt_table
  /\ normalize_rows_full(pr_table) # pr_table

============================================================================
